---------------------------- MODULE Spec2Model ----------------------------
(***************************************************************************)
(* A model of the OSPFS kernel module (ospfsmod.c): the free-block bitmap, *)
(* the inode table, the block-pointer tree (direct / indirect / doubly     *)
(* indirect), add_block / remove_block / change_size, the directory        *)
(* engine and the namespace operations.                                    *)
(*                                                                         *)
(* Storage is modelled the way the C code sees it: every block of the data *)
(* region is an array of OSPFS_NINDIRECT 32-bit words, addressed by        *)
(* blockno * OSPFS_NINDIRECT + index exactly like the pointer arithmetic   *)
(* ospfs_block(blockno)[index], so an index past the end of a block lands  *)
(* in the following block.  An access through such a pointer that leaves   *)
(* the data region (boot sector, superblock, bitmap, inode table, or past  *)
(* the end of the image) is recorded in the flag "wild"; what the kernel   *)
(* does afterwards is not modelled and the model stops there.              *)
(*                                                                         *)
(* The constants of ospfs.h are scaled down so that the pointer tree can   *)
(* be explored to its maximum size.                                        *)
(***************************************************************************)
EXTENDS Integers, Sequences, FiniteSets, TLC

\* ------------------------------------------------------------ constants
\* ospfs.h (scaled): words per block, bytes per block, direct pointers.
OSPFS_NINDIRECT == 2
OSPFS_BLKSIZE == 4 * OSPFS_NINDIRECT
OSPFS_NDIRECT == 1
OSPFS_MAXFILEBLKS ==
    OSPFS_NDIRECT + OSPFS_NINDIRECT + OSPFS_NINDIRECT * OSPFS_NINDIRECT
\* A directory entry: od_ino (one word) followed by od_name[MAXNAMELEN + 1];
\* a whole number of entries fills a block, here one.
OSPFS_DIRENTRY_SIZE == OSPFS_BLKSIZE
OSPFS_MAXNAMELEN == OSPFS_DIRENTRY_SIZE - 4 - 1
\* An inode: oi_size, oi_ftype, oi_nlink, oi_mode, then either
\* oi_direct[NDIRECT], oi_indirect, oi_indirect2 or oi_symlink[MAXSYMLINKLEN+1].
PayloadWords == OSPFS_NDIRECT + 2
OSPFS_INODESIZE == 16 + 4 * PayloadWords
OSPFS_MAXSYMLINKLEN == 4 * PayloadWords - 1
OSPFS_FTYPE_REG == 0
OSPFS_FTYPE_DIR == 1
OSPFS_FTYPE_SYMLINK == 2
OSPFS_ROOT_INO == 1
OSPFS_FREEMAP_BLK == 2

\* errno values and the kernel's error-pointer range.
ENOENT == 2
EPERM == 1
EIO == 5
EFAULT == 14
EEXIST == 17
EINVAL == 22
ENOSPC == 28
ENAMETOOLONG == 36
MAX_ERRNO == 4095

\* ------------------------------------------------------------ the image
\* Bounds of the image: number of inodes, and number of data-region blocks
\* of the small image (Spec) and of the large image (SpecGrow).
NINODES == 3
NDATA == 4
NDATA_GROW == 16

VARIABLES
    os_nblocks, \* superblock: number of blocks of the image (never changes)
    freemap,    \* the free-block bitmap: the set of bit indices whose bit is 1
    inodes,     \* the inode table: ino -> [size, ftype, nlink, mode, w]
    disk,       \* the data region: word address -> 32-bit word
    wild,       \* an access left the data region through a block pointer
    last,       \* the last operation: its name, arguments and return value
    filp        \* the open root directory: filp->f_pos, and the entries
                \* filldir has accepted since the open

vars == <<os_nblocks, freemap, inodes, disk, wild, last, filp>>

\* The other superblock fields, and the layout they imply.
os_ninodes == NINODES
os_firstinob == OSPFS_FREEMAP_BLK + 1
FirstData == os_firstinob + (NINODES * OSPFS_INODESIZE) \div OSPFS_BLKSIZE

DataBlocks == FirstData .. (os_nblocks - 1)
DataWords == (FirstData * OSPFS_NINDIRECT) .. (os_nblocks * OSPFS_NINDIRECT - 1)
Inos == 0 .. (os_ninodes - 1)

\* The filesystem as one value, as the C functions see and change it.
Machine == [fm |-> freemap, ino |-> inodes, dk |-> disk, wild |-> wild]

Min(S) == CHOOSE x \in S : \A y \in S : x <= y

\* ------------------------------------------------------------ memory
\* ospfs_block(blockno)[index]: the word address of a slot.
ospfs_block(blockno, index) == blockno * OSPFS_NINDIRECT + index

Valid(a) == a \in DataWords

\* A word read; a read outside the data region yields 0 here and is
\* recorded by Touch.
Rd(m, a) == IF Valid(a) THEN m.dk[a] ELSE 0

Touch(m, a) == IF Valid(a) THEN m ELSE [m EXCEPT !.wild = TRUE]

Wr(m, a, v) ==
    IF Valid(a) THEN [m EXCEPT !.dk[a] = v] ELSE [m EXCEPT !.wild = TRUE]

\* memset(ospfs_block(blockno), 0, OSPFS_BLKSIZE)
ZeroBlock(m, blockno) ==
    IF blockno \in DataBlocks
    THEN [m EXCEPT !.dk = [a \in DataWords |->
             IF a \div OSPFS_NINDIRECT = blockno THEN 0 ELSE m.dk[a]]]
    ELSE [m EXCEPT !.wild = TRUE]

\* Bytes of a little-endian word.
Pow256(k) == 256 ^ k
Byte(w, k) == (w \div Pow256(k)) % 256
SetByte(w, k, b) == w - Byte(w, k) * Pow256(k) + b * Pow256(k)

\* ------------------------------------------------------------ bitmap
\* Number of bits allocate_block scans: all bits of the bitmap blocks.
NumBits == (os_firstinob - OSPFS_FREEMAP_BLK) * OSPFS_BLKSIZE * 8

bitvector_test(m, i) == i \in m.fm

\* allocate_block: first bit that is 1, cleared; the bit index is the
\* result, so a set bit 0 is cleared and reported as "disk full".
allocate_block(m) ==
    IF m.fm = {}
    THEN [m |-> m, blk |-> 0]
    ELSE LET bit == Min(m.fm)
         IN  [m |-> [m EXCEPT !.fm = @ \ {bit}], blk |-> bit]

\* free_block: bitvector_set with no check of blockno; a bit index beyond
\* the bitmap blocks writes into the inode table.
free_block(m, blockno) ==
    IF blockno \in 0 .. (NumBits - 1)
    THEN [m EXCEPT !.fm = @ \cup {blockno}]
    ELSE [m EXCEPT !.wild = TRUE]

\* ------------------------------------------------------------ inodes
ospfs_size2nblocks(size) == (size + OSPFS_BLKSIZE - 1) \div OSPFS_BLKSIZE

oi_indirect(m, i) == m.ino[i].w[OSPFS_NDIRECT]
oi_indirect2(m, i) == m.ino[i].w[OSPFS_NDIRECT + 1]

SetPtr(m, i, k, v) ==
    IF k \in 0 .. (PayloadWords - 1)
    THEN [m EXCEPT !.ino[i].w[k] = v]
    ELSE [m EXCEPT !.wild = TRUE]

GetPtr(m, i, k) == IF k \in 0 .. (PayloadWords - 1) THEN m.ino[i].w[k] ELSE 0

\* ospfs_inode_blockno(oi, offset)
ospfs_inode_blockno(m, i, offset) ==
    LET oi == m.ino[i]
        blockno == offset \div OSPFS_BLKSIZE
    IN  IF offset >= oi.size \/ oi.ftype = OSPFS_FTYPE_SYMLINK THEN 0
        ELSE IF blockno >= OSPFS_NDIRECT + OSPFS_NINDIRECT THEN
            LET blockoff == blockno - (OSPFS_NDIRECT + OSPFS_NINDIRECT)
                indirect_block ==
                    Rd(m, ospfs_block(oi_indirect2(m, i),
                                      blockoff \div OSPFS_NINDIRECT))
            IN  Rd(m, ospfs_block(indirect_block, blockoff % OSPFS_NINDIRECT))
        ELSE IF blockno >= OSPFS_NDIRECT THEN
            Rd(m, ospfs_block(oi_indirect(m, i), blockno - OSPFS_NDIRECT))
        ELSE oi.w[blockno]

\* ------------------------------------------------------------ index logic
indir2_index(b) ==
    IF b >= OSPFS_NDIRECT + OSPFS_NINDIRECT /\ b < OSPFS_MAXFILEBLKS
    THEN 0 ELSE -1

indir_index(b) ==
    IF b >= OSPFS_NDIRECT /\ b < OSPFS_NINDIRECT + OSPFS_NDIRECT THEN 0
    ELSE IF b >= OSPFS_NINDIRECT + OSPFS_NDIRECT /\ b < OSPFS_MAXFILEBLKS
         THEN (b - (OSPFS_NINDIRECT + OSPFS_NDIRECT)) \div OSPFS_NINDIRECT
         ELSE -1

direct_index(b) ==
    IF b >= 0 /\ b < OSPFS_NDIRECT THEN b
    ELSE IF b >= OSPFS_NDIRECT /\ b < OSPFS_NINDIRECT + OSPFS_NDIRECT
         THEN b - OSPFS_NDIRECT
    ELSE IF b >= OSPFS_NINDIRECT + OSPFS_NDIRECT /\ b < OSPFS_MAXFILEBLKS
         THEN (b - (OSPFS_NINDIRECT + OSPFS_NDIRECT))
                  % (OSPFS_NINDIRECT + OSPFS_NDIRECT)
         ELSE -1

\* ------------------------------------------------------------ add_block
Ret(m, r) == [m |-> m, r |-> r]

\* add_block's last step: oi_size moves to the end of the new block.
GrowSize(m, i) ==
    LET size == m.ino[i].size
    IN  IF size % OSPFS_BLKSIZE # 0
        THEN [m EXCEPT !.ino[i].size =
                 size + (OSPFS_BLKSIZE - (size % OSPFS_BLKSIZE)) + OSPFS_BLKSIZE]
        ELSE [m EXCEPT !.ino[i].size = size + OSPFS_BLKSIZE]

\* n < OSPFS_NDIRECT: one data block into oi_direct[n].
add_block_direct(m, i, n) ==
    LET a0 == allocate_block(m)
    IN  IF a0.blk = 0 THEN Ret(a0.m, -ENOSPC)
        ELSE Ret(GrowSize(SetPtr(ZeroBlock(a0.m, a0.blk), i, n, a0.blk), i), 0)

\* OSPFS_NDIRECT <= n < OSPFS_NDIRECT + OSPFS_NINDIRECT.
add_block_indirect(m, i, n) ==
    IF direct_index(n) < 0 THEN Ret(m, -EIO)
    ELSE IF oi_indirect(m, i) # 0 THEN
        LET a0 == allocate_block(m)
        IN  IF a0.blk # 0
            THEN Ret(GrowSize(
                     Wr(ZeroBlock(a0.m, a0.blk),
                        ospfs_block(oi_indirect(m, i), direct_index(n)),
                        a0.blk), i), 0)
            ELSE Ret(a0.m, -ENOSPC)
    ELSE
        LET a0 == allocate_block(m)
        IN  IF a0.blk = 0 THEN Ret(a0.m, -ENOSPC)
            ELSE
            LET m1 == SetPtr(ZeroBlock(a0.m, a0.blk), i, OSPFS_NDIRECT, a0.blk)
                a1 == allocate_block(m1)
            IN  IF a1.blk # 0
                THEN Ret(GrowSize(
                         Wr(ZeroBlock(a1.m, a1.blk),
                            ospfs_block(a0.blk, direct_index(n)), a1.blk), i), 0)
                ELSE Ret(SetPtr(free_block(a1.m, a0.blk), i, OSPFS_NDIRECT, 0),
                         -ENOSPC)

\* n >= OSPFS_NDIRECT + OSPFS_NINDIRECT and oi_indirect2 is present.
add_block_indirect2_present(m, i, n) ==
    LET slot == ospfs_block(oi_indirect2(m, i), indir_index(n))
        ind == Rd(m, slot)
        mt == Touch(m, slot)
    IN  IF ind # 0 THEN
            LET a0 == allocate_block(mt)
            IN  IF a0.blk # 0
                THEN Ret(GrowSize(
                         Wr(ZeroBlock(a0.m, a0.blk),
                            ospfs_block(ind, direct_index(n)), a0.blk), i), 0)
                ELSE Ret(a0.m, -ENOSPC)
        ELSE
            LET a0 == allocate_block(mt)
            IN  IF a0.blk = 0 THEN Ret(a0.m, -ENOSPC)
                ELSE
                \* the new indirect block is linked without being zeroed
                LET m1 == Wr(a0.m, slot, a0.blk)
                    a1 == allocate_block(m1)
                IN  IF a1.blk = 0
                    THEN Ret(Wr(free_block(a1.m, a0.blk), slot, 0), -ENOSPC)
                    ELSE Ret(GrowSize(
                             Wr(ZeroBlock(a1.m, a1.blk),
                                ospfs_block(a0.blk, direct_index(n)), a1.blk),
                             i), 0)

\* add_block_indirect2_absent with oi_indirect2 left set when the third
\* allocation fails.
add_block_indirect2_absent_kept(m, i, n) ==
    LET a0 == allocate_block(m)
    IN  IF a0.blk = 0 THEN Ret(a0.m, -ENOSPC)
        ELSE
        LET m1 == SetPtr(ZeroBlock(a0.m, a0.blk), i, OSPFS_NDIRECT + 1, a0.blk)
            a1 == allocate_block(m1)
        IN  IF a1.blk # 0 THEN
                LET m2 == Wr(ZeroBlock(a1.m, a1.blk),
                             ospfs_block(a0.blk, indir_index(n)), a1.blk)
                    a2 == allocate_block(m2)
                IN  IF a2.blk # 0
                    THEN Ret(GrowSize(
                             Wr(ZeroBlock(a2.m, a2.blk),
                                ospfs_block(a1.blk, direct_index(n)), a2.blk),
                             i), 0)
                    ELSE Ret(free_block(free_block(a2.m, a0.blk), a1.blk),
                             -ENOSPC)
            ELSE Ret(SetPtr(free_block(a1.m, a0.blk), i, OSPFS_NDIRECT + 1, 0),
                     -ENOSPC)

\* n >= OSPFS_NDIRECT + OSPFS_NINDIRECT and oi_indirect2 is absent.
add_block_indirect2_absent(m, i, n) ==
    LET a0 == allocate_block(m)
    IN  IF a0.blk = 0 THEN Ret(a0.m, -ENOSPC)
        ELSE
        LET m1 == SetPtr(ZeroBlock(a0.m, a0.blk), i, OSPFS_NDIRECT + 1, a0.blk)
            a1 == allocate_block(m1)
        IN  IF a1.blk # 0 THEN
                LET m2 == Wr(ZeroBlock(a1.m, a1.blk),
                             ospfs_block(a0.blk, indir_index(n)), a1.blk)
                    a2 == allocate_block(m2)
                IN  IF a2.blk # 0
                    THEN Ret(GrowSize(
                             Wr(ZeroBlock(a2.m, a2.blk),
                                ospfs_block(a1.blk, direct_index(n)), a2.blk),
                             i), 0)
                    ELSE Ret(SetPtr(free_block(free_block(a2.m, a0.blk), a1.blk),
                                    i, OSPFS_NDIRECT + 1, 0), -ENOSPC)
            ELSE Ret(SetPtr(free_block(a1.m, a0.blk), i, OSPFS_NDIRECT + 1, 0),
                     -ENOSPC)

add_block(m, i) ==
    LET n == ospfs_size2nblocks(m.ino[i].size)
    IN  IF n < OSPFS_NDIRECT THEN add_block_direct(m, i, n)
        ELSE IF n < OSPFS_NDIRECT + OSPFS_NINDIRECT
             THEN add_block_indirect(m, i, n)
        ELSE IF n < OSPFS_MAXFILEBLKS THEN
             IF indir_index(n) < 0 \/ direct_index(n) < 0 THEN Ret(m, -EIO)
             ELSE IF oi_indirect2(m, i) # 0
                  THEN add_block_indirect2_present(m, i, n)
                  ELSE add_block_indirect2_absent(m, i, n)
        ELSE Ret(m, -EIO)

\* ------------------------------------------------------------ remove_block
\* remove_block's last step: oi_size moves back to the previous block end.
ShrinkSize(m, i) ==
    LET size == m.ino[i].size
    IN  IF size % OSPFS_BLKSIZE # 0
        THEN [m EXCEPT !.ino[i].size = size - (size % OSPFS_BLKSIZE)]
        ELSE [m EXCEPT !.ino[i].size = size - OSPFS_BLKSIZE]

remove_block_direct(m, i, n) ==
    LET m0 == IF (n - 1) \in 0 .. (PayloadWords - 1)
              THEN m ELSE [m EXCEPT !.wild = TRUE]
    IN  Ret(ShrinkSize(SetPtr(free_block(m0, GetPtr(m, i, n - 1)), i, n - 1, 0),
                       i), 0)

remove_block_indirect(m, i, n) ==
    IF direct_index(n - 1) < 0 \/ oi_indirect(m, i) = 0 THEN Ret(m, -EIO)
    ELSE
    LET slot == ospfs_block(oi_indirect(m, i), direct_index(n - 1))
        m1 == Wr(free_block(Touch(m, slot), Rd(m, slot)), slot, 0)
        m2 == IF indir_index(n - 2) < 0
              THEN SetPtr(free_block(m1, oi_indirect(m, i)), i, OSPFS_NDIRECT, 0)
              ELSE m1
    IN  Ret(ShrinkSize(m2, i), 0)

remove_block_indirect2(m, i, n) ==
    IF indir_index(n - 1) < 0 \/ direct_index(n - 1) < 0 THEN Ret(m, -EIO)
    ELSE IF oi_indirect2(m, i) = 0 THEN Ret(m, -EIO)
    ELSE
    LET islot == ospfs_block(oi_indirect2(m, i), indir_index(n - 1))
        ind == Rd(m, islot)
        dslot == ospfs_block(ind, direct_index(n - 1))
        m1 == Wr(free_block(Touch(Touch(m, islot), dslot), Rd(m, dslot)),
                 dslot, 0)
        m2 == IF direct_index(n - 1) = 0
              THEN LET m3 == Wr(free_block(m1, Rd(m1, islot)), islot, 0)
                   IN  IF indir2_index(n - 2) < 0
                       THEN SetPtr(free_block(m3, oi_indirect2(m, i)),
                                   i, OSPFS_NDIRECT + 1, 0)
                       ELSE m3
              ELSE m1
    IN  Ret(ShrinkSize(m2, i), 0)

remove_block(m, i) ==
    LET n == ospfs_size2nblocks(m.ino[i].size)
    IN  IF n <= 0 THEN Ret(m, -EIO)
        ELSE IF indir_index(n - 1) < 0 THEN remove_block_direct(m, i, n)
        ELSE IF indir2_index(n - 1) < 0 THEN remove_block_indirect(m, i, n)
        ELSE IF indir_index(n - 1) >= 0 THEN remove_block_indirect2(m, i, n)
        ELSE Ret(m, -EIO)

\* ------------------------------------------------------------ change_size
\* A function's result is handed to the code that follows the call as the
\* argument x = [m, r] of an operator of its own, named after the function
\* and the step.

\* The roll-back loop: while (oi->oi_size > old_size) remove_block.
RECURSIVE RollBack(_, _, _)
RollBack_removed(x, i, old_size) ==
    IF x.r # 0 THEN x ELSE RollBack(x.m, i, old_size)

RollBack(m, i, old_size) ==
    IF m.ino[i].size > old_size
    THEN RollBack_removed(remove_block(m, i), i, old_size)
    ELSE Ret(m, -ENOSPC)

\* The growth loop.
RECURSIVE GrowLoop(_, _, _, _)
GrowLoop_added(x, i, old_size, new_size) ==
    IF x.r = -ENOSPC THEN RollBack(x.m, i, old_size)
    ELSE IF x.r < 0 THEN x
    ELSE GrowLoop(x.m, i, old_size, new_size)

GrowLoop(m, i, old_size, new_size) ==
    IF ospfs_size2nblocks(m.ino[i].size) < ospfs_size2nblocks(new_size)
    THEN GrowLoop_added(add_block(m, i), i, old_size, new_size)
    ELSE Ret(m, 0)

\* The shrink loop.
RECURSIVE ShrinkLoop(_, _, _)
ShrinkLoop_removed(x, i, new_size) ==
    IF x.r < 0 THEN x ELSE ShrinkLoop(x.m, i, new_size)

ShrinkLoop(m, i, new_size) ==
    IF ospfs_size2nblocks(m.ino[i].size) > ospfs_size2nblocks(new_size)
    THEN ShrinkLoop_removed(remove_block(m, i), i, new_size)
    ELSE Ret(m, 0)

\* After both loops: oi_size = new_size.
change_size_shrunk(x, i, new_size) ==
    IF x.r # 0 THEN x ELSE Ret([x.m EXCEPT !.ino[i].size = new_size], 0)

change_size_grown(x, i, new_size) ==
    IF x.r # 0 THEN x
    ELSE change_size_shrunk(ShrinkLoop(x.m, i, new_size), i, new_size)

change_size(m, i, new_size) ==
    change_size_grown(GrowLoop(m, i, m.ino[i].size, new_size), i, new_size)

\* ospfs_notify_change(dentry, attr): ia_valid is a set of bits.  The
\* kernel's inode_change_ok and inode_setattr act on the VFS inode and are
\* taken to return 0.
ATTR_MODE == 1
ATTR_SIZE == 8
HasBit(valid, bit) == (valid \div bit) % 2 = 1

ospfs_notify_change_mode(x, i, ia_valid, ia_mode) ==
    IF HasBit(ia_valid, ATTR_MODE)
    THEN Ret([x.m EXCEPT !.ino[i].mode = ia_mode], 0)
    ELSE Ret(x.m, 0)

\* ospfs_notify_change with the mode stored before the test for a
\* directory.
ospfs_notify_change_late(m, i, ia_valid, ia_size, ia_mode) ==
    IF HasBit(ia_valid, ATTR_SIZE) /\ m.ino[i].ftype = OSPFS_FTYPE_DIR
    THEN Ret(ospfs_notify_change_mode(Ret(m, 0), i, ia_valid, ia_mode).m,
             -EPERM)
    ELSE IF HasBit(ia_valid, ATTR_SIZE) /\ change_size(m, i, ia_size).r < 0
    THEN change_size(m, i, ia_size)
    ELSE IF HasBit(ia_valid, ATTR_SIZE)
    THEN ospfs_notify_change_mode(change_size(m, i, ia_size), i, ia_valid,
                                  ia_mode)
    ELSE ospfs_notify_change_mode(Ret(m, 0), i, ia_valid, ia_mode)

ospfs_notify_change(m, i, ia_valid, ia_size, ia_mode) ==
    IF HasBit(ia_valid, ATTR_SIZE) /\ m.ino[i].ftype = OSPFS_FTYPE_DIR
    THEN Ret(m, -EPERM)
    ELSE IF HasBit(ia_valid, ATTR_SIZE) /\ change_size(m, i, ia_size).r < 0
    THEN change_size(m, i, ia_size)
    ELSE IF HasBit(ia_valid, ATTR_SIZE)
    THEN ospfs_notify_change_mode(change_size(m, i, ia_size), i, ia_valid,
                                  ia_mode)
    ELSE ospfs_notify_change_mode(Ret(m, 0), i, ia_valid, ia_mode)

\* ------------------------------------------------------------ directories
\* Byte access: byte address ba is byte ba % 4 of word ba \div 4.
ByteAt(m, ba) == Byte(Rd(m, ba \div 4), ba % 4)

WrByte(m, ba, b) == Wr(m, ba \div 4, SetByte(Rd(m, ba \div 4), ba % 4, b))

\* strlen of the C string at byte address ba.
RECURSIVE strlen(_, _)
strlen(m, ba) == IF ByteAt(m, ba) = 0 THEN 0 ELSE 1 + strlen(m, ba + 1)

\* memcmp(at ba, name, namelen) == 0
memcmp0(m, ba, name, namelen) ==
    \A k \in 1 .. namelen : ByteAt(m, ba + k - 1) = name[k]

\* memcpy(at ba, name, len); at[len] = '\0'
RECURSIVE memcpy(_, _, _, _)
memcpy(m, ba, name, k) ==
    IF k > Len(name) THEN m
    ELSE memcpy(WrByte(m, ba + k - 1, name[k]), ba, name, k + 1)

WriteName(m, ba, name) == WrByte(memcpy(m, ba, name, 1), ba + Len(name), 0)

\* ospfs_inode_data(dir_oi, off) as the word address of the entry; the
\* entry's od_ino is that word, od_name starts at the next word.
ospfs_inode_data(m, i, off) ==
    ospfs_block(ospfs_inode_blockno(m, i, off), (off % OSPFS_BLKSIZE) \div 4)

od_ino(m, od) == Rd(m, od)
od_name(od) == 4 * (od + 1)

\* Offsets of the entries of a directory of the given size.
EntryOffs(size) == {off \in 0 .. (size - 1) : off % OSPFS_DIRENTRY_SIZE = 0}

Matches(m, od, name) ==
    /\ od_ino(m, od) # 0
    /\ strlen(m, od_name(od)) = Len(name)
    /\ memcmp0(m, od_name(od), name, Len(name))

\* A pointer value: a directory entry, or a raw integer (NULL, ERR_PTR).
Od(a) == [k |-> "od", a |-> a]
Raw(v) == [k |-> "raw", a |-> v]
NULL == Raw(0)
ERR_PTR(v) == Raw(v)
IS_ERR(p) == p.k = "raw" /\ p.a >= -MAX_ERRNO /\ p.a < 0
PTR_ERR(p) == p.a

\* find_direntry: the first matching entry, or NULL.
find_direntry(m, dir, name) ==
    LET hits == {off \in EntryOffs(m.ino[dir].size) :
                    Matches(m, ospfs_inode_data(m, dir, off), name)}
    IN  IF hits = {} THEN NULL ELSE Od(ospfs_inode_data(m, dir, Min(hits)))

\* create_blank_direntry: the first entry with od_ino == 0, else the first
\* entry of a block added to the directory.  A failure of add_block is
\* returned as ERR_PTR(-success), success being the negative errno.
BlankOffs(m, dir) ==
    {off \in EntryOffs(m.ino[dir].size) :
        od_ino(m, ospfs_inode_data(m, dir, off)) = 0}

\* The value the scan loop leaves in 'off' for a directory of the given size.
ScanEnd(size) ==
    Min({o \in size .. (size + OSPFS_DIRENTRY_SIZE) :
            o % OSPFS_DIRENTRY_SIZE = 0})

create_blank_direntry_added(x, dir, off) ==
    IF x.r < 0 THEN [m |-> x.m, od |-> ERR_PTR(-(x.r))]
    ELSE IF od_ino(x.m, ospfs_inode_data(x.m, dir, off)) # 0
         THEN [m |-> x.m, od |-> ERR_PTR(-EIO)]
         ELSE [m |-> x.m, od |-> Od(ospfs_inode_data(x.m, dir, off))]

create_blank_direntry(m, dir) ==
    IF BlankOffs(m, dir) # {}
    THEN [m |-> m, od |-> Od(ospfs_inode_data(m, dir, Min(BlankOffs(m, dir))))]
    ELSE create_blank_direntry_added(add_block(m, dir), dir,
                                     ScanEnd(m.ino[dir].size))

\* Stores through an entry pointer; through a raw pointer they leave the image.
SetOdIno(m, p, v) ==
    IF p.k = "od" THEN Wr(m, p.a, v) ELSE [m EXCEPT !.wild = TRUE]

SetOdName(m, p, name) ==
    IF p.k = "od" THEN WriteName(m, od_name(p.a), name)
    ELSE [m EXCEPT !.wild = TRUE]

\* The scan for a free inode in ospfs_create and ospfs_symlink: the first
\* ino, from 0, whose oi_nlink is 0; os_ninodes if there is none.
FreeInodeScan(m) ==
    LET free == {i \in Inos : m.ino[i].nlink = 0}
    IN  IF free = {} THEN os_ninodes ELSE Min(free)

ZeroPayload == [k \in 0 .. (PayloadWords - 1) |-> 0]

\* ------------------------------------------------------------ namespace
\* ospfs_create, from the inode initialisation on: m is the image with the
\* entry written, od the entry pointer.
ospfs_create_inode(m, od, entry_ino, mode) ==
    LET ino == IF od.k = "od" THEN od_ino(m, od.a) ELSE entry_ino
    IN  IF ino \notin Inos THEN Ret([m EXCEPT !.wild = TRUE], 0)
        ELSE Ret([m EXCEPT !.ino[ino] =
                     [size |-> 0, ftype |-> OSPFS_FTYPE_REG, nlink |-> 1,
                      mode |-> mode, w |-> ZeroPayload]], 0)

\* ospfs_create, from the return of create_blank_direntry on.
ospfs_create_entry(c, name, mode) ==
    IF IS_ERR(c.od) THEN Ret(c.m, PTR_ERR(c.od))
    ELSE IF FreeInodeScan(c.m) = os_ninodes THEN Ret(c.m, -ENOSPC)
    ELSE ospfs_create_inode(
             SetOdName(SetOdIno(c.m, c.od, FreeInodeScan(c.m)), c.od, name),
             c.od, FreeInodeScan(c.m), mode)

\* ospfs_create without the find_direntry test of lines 1613-1616: the
\* variant C9 is tested against.
ospfs_create_unchecked(m, dir, name, mode) ==
    IF Len(name) > OSPFS_MAXNAMELEN THEN Ret(m, -ENAMETOOLONG)
    ELSE ospfs_create_entry(create_blank_direntry(m, dir), name, mode)

ospfs_create(m, dir, name, mode) ==
    IF Len(name) > OSPFS_MAXNAMELEN THEN Ret(m, -ENAMETOOLONG)
    ELSE IF find_direntry(m, dir, name) # NULL THEN Ret(m, -EEXIST)
    ELSE ospfs_create_entry(create_blank_direntry(m, dir), name, mode)

\* ospfs_link, from the return of create_blank_direntry on.
ospfs_link_entry(c, src, name) ==
    IF IS_ERR(c.od) THEN Ret(c.m, PTR_ERR(c.od))
    ELSE IF Len(name) > OSPFS_MAXNAMELEN THEN Ret(c.m, -ENAMETOOLONG)
    ELSE Ret([SetOdIno(SetOdName(c.m, c.od, name), c.od, src)
                 EXCEPT !.ino[src].nlink = @ + 1], 0)

ospfs_link(m, src, dir, name) ==
    IF find_direntry(m, dir, name) # NULL THEN Ret(m, -EEXIST)
    ELSE ospfs_link_entry(create_blank_direntry(m, dir), src, name)

\* strcpy(oi_symlink, symname) into the payload words of an inode.
RECURSIVE strcpy(_, _, _)
strcpy(w, symname, k) ==
    IF k > Len(symname)
    THEN [w EXCEPT ![(k - 1) \div 4] = SetByte(@, (k - 1) % 4, 0)]
    ELSE strcpy([w EXCEPT ![(k - 1) \div 4] =
                    SetByte(@, (k - 1) % 4, symname[k])], symname, k + 1)

\* ospfs_symlink, from the return of create_blank_direntry on.
ospfs_symlink_entry(c, entry_ino, name, symname) ==
    IF IS_ERR(c.od) THEN Ret(c.m, PTR_ERR(c.od))
    ELSE Ret(SetOdName(
                 SetOdIno([c.m EXCEPT !.ino[entry_ino] =
                              [@ EXCEPT !.size = Len(symname),
                                        !.ftype = OSPFS_FTYPE_SYMLINK,
                                        !.nlink = 1,
                                        !.w = strcpy(@, symname, 1)]],
                          c.od, entry_ino),
                 c.od, name), 0)

ospfs_symlink(m, dir, name, symname) ==
    IF Len(name) > OSPFS_MAXNAMELEN \/ Len(symname) > OSPFS_MAXSYMLINKLEN
    THEN Ret(m, -ENAMETOOLONG)
    ELSE IF find_direntry(m, dir, name) # NULL THEN Ret(m, -EEXIST)
    ELSE IF FreeInodeScan(m) = os_ninodes THEN Ret(m, -ENOSPC)
    ELSE ospfs_symlink_entry(create_blank_direntry(m, dir), FreeInodeScan(m),
                             name, symname)

\* ospfs_unlink, after od_ino = 0 and oi_nlink--.
ospfs_unlink_dropped(m, oi) ==
    IF m.ino[oi].nlink = 0 /\ m.ino[oi].ftype # OSPFS_FTYPE_SYMLINK
    THEN change_size(m, oi, 0)
    ELSE Ret(m, 0)

\* ospfs_unlink without the oi_nlink-- of line 554: the variant C12 is
\* tested against.
ospfs_unlink_counted(m, dir, name, oi) ==
    LET hits == {off \in EntryOffs(m.ino[dir].size) :
                    Matches(m, ospfs_inode_data(m, dir, off), name)}
    IN  IF hits = {} THEN Ret(m, -ENOENT)
        ELSE ospfs_unlink_dropped(
                 Wr(m, ospfs_inode_data(m, dir, Min(hits)), 0), oi)

\* ospfs_unlink: oi is the inode the name resolved to (dentry->d_inode).
ospfs_unlink(m, dir, name, oi) ==
    LET hits == {off \in EntryOffs(m.ino[dir].size) :
                    Matches(m, ospfs_inode_data(m, dir, off), name)}
    IN  IF hits = {} THEN Ret(m, -ENOENT)
        ELSE ospfs_unlink_dropped(
                 [Wr(m, ospfs_inode_data(m, dir, Min(hits)), 0)
                     EXCEPT !.ino[oi].nlink = @ - 1], oi)

\* ospfs_dir_lookup with the length test of line 357 off by one (>= for >):
\* the variant C10 is tested against.
ospfs_dir_lookup_short(m, dir, name) ==
    IF Len(name) >= OSPFS_MAXNAMELEN THEN -ENAMETOOLONG
    ELSE LET p == find_direntry(m, dir, name)
         IN  IF p = NULL THEN 0
             ELSE IF od_ino(m, p.a) \notin Inos THEN -EINVAL
             ELSE od_ino(m, p.a)

\* ospfs_dir_lookup: the inode number a name resolves to: 0 for a negative
\* dentry, a negative errno on error.
ospfs_dir_lookup(m, dir, name) ==
    IF Len(name) > OSPFS_MAXNAMELEN THEN -ENAMETOOLONG
    ELSE LET p == find_direntry(m, dir, name)
         IN  IF p = NULL THEN 0
             ELSE IF od_ino(m, p.a) \notin Inos THEN -EINVAL
             ELSE od_ino(m, p.a)

\* ------------------------------------------------------------ follow_link
\* oi_symlink[k]: byte k of the payload words w of a symlink inode.
SymBytes == 4 * PayloadWords
SymByte(w, k) == Byte(w[k \div 4], k % 4)
SetSymByte(w, k, b) == [w EXCEPT ![k \div 4] = SetByte(@, k % 4, b)]

\* strlen(oi_symlink + p), as far as the field reaches.
RECURSIVE SymStrlen(_, _)
SymStrlen(w, p) ==
    IF p >= SymBytes THEN 0
    ELSE IF SymByte(w, p) = 0 THEN 0 ELSE 1 + SymStrlen(w, p + 1)

\* The C string nd_set_link is given, oi_symlink + p: its bytes, or Beyond
\* when it starts or runs past the end of the field (the bytes of whatever
\* follows the inode).
Beyond == <<-1>>
CStr(w, p) ==
    IF p + SymStrlen(w, p) >= SymBytes THEN Beyond
    ELSE [k \in 1 .. SymStrlen(w, p) |-> SymByte(w, p + k - 1)]

\* strncpy(dest, src, n) for n <= strlen(src): n bytes, no terminator.
RECURSIVE strncpy(_, _, _)
strncpy(w, src, n) ==
    IF n = 0 THEN w ELSE strncpy(SetSymByte(w, n - 1, src[n]), src, n - 1)

RootPrefix == <<114, 111, 111, 116, 63>>
Colon == <<58>>

\* The value of i after the loop of lines 1770-1775: the index of the first
\* ':' of the string, or its length.
ColonAt(w) ==
    Min({i \in 0 .. (SymStrlen(w, 0) - 1) : SymByte(w, i) = Colon[1]}
        \cup {SymStrlen(w, 0)})

\* The end of ospfs_follow_link with oi_symlink + i for oi_symlink + i + 1
\* at line 1782: the variant C13 is tested against.
ospfs_follow_link_split_at(m, ino, uid, w, i) ==
    Ret([m EXCEPT !.ino[ino].w = w],
        IF uid = 0 THEN CStr(w, Len(RootPrefix)) ELSE CStr(w, i))

\* ospfs_follow_link: the path handed to nd_set_link.  The test of line 1766
\* is on the value of strncpy, which is its first argument and never null,
\* so the last two lines of the function are never reached.
ospfs_follow_link_split(m, ino, uid, w, i) ==
    Ret([m EXCEPT !.ino[ino].w = w],
        IF uid = 0 THEN CStr(w, Len(RootPrefix)) ELSE CStr(w, i + 1))

\* ospfs_follow_link_scanned with i left at 0 when the loop of lines
\* 1770-1775 finds no ':': the variant C35 is tested against.
ospfs_follow_link_scanned_first(m, ino, uid, w, i) ==
    IF i < SymStrlen(w, 0)
    THEN ospfs_follow_link_split(m, ino, uid, SetSymByte(w, i, 0), i)
    ELSE ospfs_follow_link_split(m, ino, uid, w, 0)

ospfs_follow_link_scanned(m, ino, uid, w, i) ==
    ospfs_follow_link_split(
        m, ino, uid,
        IF i < SymStrlen(w, 0) THEN SetSymByte(w, i, 0) ELSE w, i)

ospfs_follow_link_copied(m, ino, uid, w) ==
    ospfs_follow_link_scanned(m, ino, uid, w, ColonAt(w))

ospfs_follow_link(m, ino, uid) ==
    ospfs_follow_link_copied(
        m, ino, uid, strncpy(m.ino[ino].w, RootPrefix, Len(RootPrefix)))

\* ------------------------------------------------------------ ospfs_read
\* The bytes of block data at byte addresses ba .. ba + n - 1.
Bytes(m, ba, n) == [k \in 1 .. n |-> ByteAt(m, ba + k - 1)]

\* The user buffer of a read or write takes or gives its first good bytes;
\* the copy that reaches byte good + 1 faults.  The bytes below the fault
\* are transferred.
\* The copy loop of ospfs_read: out is what the user buffer has received,
\* pos the value *f_pos is left with.
RECURSIVE ReadLoop(_, _, _, _, _, _, _)
ReadLoop_block(m, i, f_pos, amount, count, good, out, n, ba) ==
    IF amount + n > good
    THEN [m |-> Touch(m, ba \div 4), r |-> -EFAULT,
          out |-> out \o Bytes(m, ba, good - amount), pos |-> f_pos]
    ELSE ReadLoop(Touch(m, ba \div 4), i, f_pos + n, amount + n, count, good,
                  out \o Bytes(m, ba, n))

ReadLoop(m, i, f_pos, amount, count, good, out) ==
    IF amount >= count
    THEN [m |-> m, r |-> amount, out |-> out, pos |-> f_pos]
    ELSE IF ospfs_inode_blockno(m, i, f_pos) = 0
    THEN [m |-> m, r |-> -EIO, out |-> out, pos |-> f_pos]
    ELSE ReadLoop_block(
             m, i, f_pos, amount, count, good, out,
             Min({count - amount, OSPFS_BLKSIZE - (f_pos % OSPFS_BLKSIZE)}),
             ospfs_inode_blockno(m, i, f_pos) * OSPFS_BLKSIZE
                 + (f_pos % OSPFS_BLKSIZE))

\* ospfs_read.  count = oi_size - *f_pos is unsigned: with *f_pos beyond
\* oi_size it wraps to a count the loop cannot reach, and the loop ends at
\* the first offset that has no block.
Unreached == 2147483647
ospfs_read(m, i, f_pos, count, good) ==
    ReadLoop(m, i, f_pos, 0,
             IF m.ino[i].size >= f_pos + count THEN count
             ELSE IF m.ino[i].size >= f_pos THEN m.ino[i].size - f_pos
             ELSE Unreached,
             good, <<>>)

\* ------------------------------------------------------------ ospfs_write
\* copy_from_user(data + blk_off, buffer, n) without a fault: the bytes
\* buf[k + 1 .. k + n] of the user buffer to byte address ba.
RECURSIVE copy_from_user(_, _, _, _, _)
copy_from_user(m, ba, n, buf, k) ==
    IF n = 0 THEN m
    ELSE copy_from_user(WrByte(m, ba, buf[k + 1]), ba + 1, n - 1, buf, k + 1)

\* memset(to, 0, n): what copy_from_user does with the bytes it could not
\* read.
RECURSIVE ZeroBytes(_, _, _)
ZeroBytes(m, ba, n) ==
    IF n = 0 THEN m ELSE ZeroBytes(WrByte(m, ba, 0), ba + 1, n - 1)

\* The copy loop of ospfs_write: amount bytes are written, f_pos is the
\* file position, count is the length of buf.
RECURSIVE WriteLoop(_, _, _, _, _, _)
WriteLoop_block(m, i, f_pos, amount, buf, good, n, ba) ==
    IF amount + n > good
    THEN Ret(ZeroBytes(copy_from_user(Touch(m, ba \div 4), ba,
                                      good - amount, buf, amount),
                       ba + good - amount, amount + n - good),
             -EFAULT)
    ELSE WriteLoop(copy_from_user(Touch(m, ba \div 4), ba, n, buf, amount),
                   i, f_pos + n, amount + n, buf, good)

WriteLoop(m, i, f_pos, amount, buf, good) ==
    IF amount >= Len(buf) THEN Ret(m, amount)
    ELSE IF ospfs_inode_blockno(m, i, f_pos) = 0 THEN Ret(m, -EIO)
    ELSE WriteLoop_block(
             m, i, f_pos, amount, buf, good,
             Min({Len(buf) - amount, OSPFS_BLKSIZE - (f_pos % OSPFS_BLKSIZE)}),
             ospfs_inode_blockno(m, i, f_pos) * OSPFS_BLKSIZE
                 + (f_pos % OSPFS_BLKSIZE))

\* ospfs_write once *f_pos is settled.  free_space = oi_size - *f_pos is
\* unsigned: with *f_pos beyond oi_size it wraps to a value no count is
\* above.  The result of change_size is not looked at.
ospfs_write_at(m, i, f_pos, buf, good) ==
    IF f_pos <= m.ino[i].size /\ m.ino[i].size - f_pos < Len(buf)
    THEN WriteLoop(change_size(m, i, f_pos + Len(buf)).m,
                   i, f_pos, 0, buf, good)
    ELSE WriteLoop(m, i, f_pos, 0, buf, good)

ospfs_write(m, i, f_pos, buf, append, good) ==
    ospfs_write_at(m, i, IF append THEN m.ino[i].size ELSE f_pos, buf, good)

\* ------------------------------------------------------------ readdir
DT_DIR == 4
DT_REG == 8
DT_LNK == 10

\* The arguments of one filldir call.
Dirent(name, f_pos, ino, type) ==
    [name |-> name, f_pos |-> f_pos, ino |-> ino, type |-> type]

\* The switch on oi_ftype; 0 stands for the default case.
entry_type(ftype) ==
    IF ftype = OSPFS_FTYPE_REG THEN DT_REG
    ELSE IF ftype = OSPFS_FTYPE_DIR THEN DT_DIR
    ELSE IF ftype = OSPFS_FTYPE_SYMLINK THEN DT_LNK
    ELSE 0

\* filldir accepts budget entries of a call and refuses the next one; out
\* is the sequence of the entries it has accepted in this call.
Accepts(budget, out) == Len(out) < budget

\* ospfs_dir_readdir(filp, dirent, filldir) returns [r, f_pos, out, wild]:
\* the result, the value stored in filp->f_pos, and the accepted entries.
\* The default case of the switch returns without storing f_pos (f0 is the
\* value filp->f_pos had); an od_ino outside the inode table makes
\* ospfs_inode return NULL, which is then dereferenced.
RECURSIVE ReaddirLoop(_, _, _, _, _, _)

\* The body of the loop with f_pos advanced past an entry that filldir
\* refused.
ReaddirLoop_entry_passed(m, dir, f_pos, budget, out, f0, od) ==
    IF od_ino(m, od) > 0
    THEN IF od_ino(m, od) \notin Inos
         THEN [r |-> 0, f_pos |-> f0, out |-> out, wild |-> TRUE]
         ELSE IF entry_type(m.ino[od_ino(m, od)].ftype) = 0
         THEN [r |-> -EINVAL, f_pos |-> f0, out |-> out, wild |-> FALSE]
         ELSE IF Accepts(budget, out)
         THEN ReaddirLoop(m, dir, f_pos + OSPFS_DIRENTRY_SIZE, budget,
                  Append(out,
                         Dirent(Bytes(m, od_name(od),
                                      strlen(m, od_name(od))),
                                f_pos, od_ino(m, od),
                                entry_type(m.ino[od_ino(m, od)].ftype))),
                  f0)
         ELSE [r |-> 0, f_pos |-> f_pos + OSPFS_DIRENTRY_SIZE, out |-> out,
               wild |-> FALSE]
    ELSE ReaddirLoop(m, dir, f_pos + OSPFS_DIRENTRY_SIZE, budget, out, f0)

ReaddirLoop_entry(m, dir, f_pos, budget, out, f0, od) ==
    IF od_ino(m, od) > 0
    THEN IF od_ino(m, od) \notin Inos
         THEN [r |-> 0, f_pos |-> f0, out |-> out, wild |-> TRUE]
         ELSE IF entry_type(m.ino[od_ino(m, od)].ftype) = 0
         THEN [r |-> -EINVAL, f_pos |-> f0, out |-> out, wild |-> FALSE]
         ELSE IF Accepts(budget, out)
         THEN ReaddirLoop(m, dir, f_pos + OSPFS_DIRENTRY_SIZE, budget,
                  Append(out,
                         Dirent(Bytes(m, od_name(od),
                                      strlen(m, od_name(od))),
                                f_pos, od_ino(m, od),
                                entry_type(m.ino[od_ino(m, od)].ftype))),
                  f0)
         ELSE [r |-> 0, f_pos |-> f_pos, out |-> out, wild |-> FALSE]
    ELSE ReaddirLoop(m, dir, f_pos + OSPFS_DIRENTRY_SIZE, budget, out, f0)

ReaddirLoop(m, dir, f_pos, budget, out, f0) ==
    IF f_pos - 2 >= m.ino[dir].size
    THEN [r |-> 1, f_pos |-> f_pos, out |-> out, wild |-> FALSE]
    ELSE ReaddirLoop_entry(m, dir, f_pos, budget, out, f0,
                           ospfs_inode_data(m, dir, f_pos - 2))

\* The step for ".": s is [ok, f_pos, out], ok standing for ok_so_far >= 0.
readdir_dot(dir, f_pos, budget) ==
    IF f_pos = 0
    THEN IF Accepts(budget, <<>>)
         THEN [ok |-> TRUE, f_pos |-> 1,
               out |-> <<Dirent(<<46>>, 0, dir, DT_DIR)>>]
         ELSE [ok |-> FALSE, f_pos |-> 0, out |-> <<>>]
    ELSE [ok |-> TRUE, f_pos |-> f_pos, out |-> <<>>]

\* The step for ".." without the call of filldir.
readdir_dotdot_silent(budget, s) ==
    IF s.ok /\ s.f_pos = 1 THEN [s EXCEPT !.f_pos = 2] ELSE s

\* The step for "..": the parent of the root directory is the root.
readdir_dotdot(budget, s) ==
    IF s.ok /\ s.f_pos = 1
    THEN IF Accepts(budget, s.out)
         THEN [ok |-> TRUE, f_pos |-> 2,
               out |-> Append(s.out,
                              Dirent(<<46, 46>>, 1, OSPFS_ROOT_INO, DT_DIR))]
         ELSE [s EXCEPT !.ok = FALSE]
    ELSE s

readdir_entries(m, dir, budget, s, f0) ==
    IF s.f_pos >= 2
    THEN ReaddirLoop(m, dir, s.f_pos, budget, s.out, f0)
    ELSE [r |-> 0, f_pos |-> s.f_pos, out |-> s.out, wild |-> FALSE]

ospfs_dir_readdir(m, dir, f_pos, budget) ==
    readdir_entries(m, dir, budget,
                    readdir_dotdot(budget, readdir_dot(dir, f_pos, budget)),
                    f_pos)

\* ------------------------------------------------------------ inputs
\* File names (byte strings) the operations are called with: a short name,
\* one of exactly OSPFS_MAXNAMELEN bytes that it is a prefix of, and one that
\* is one byte too long.
Rep(b, n) == [k \in 1 .. n |-> b]
Names == {<<97>>, Rep(97, OSPFS_MAXNAMELEN), Rep(99, OSPFS_MAXNAMELEN + 1)}

\* Symlink targets: one of exactly OSPFS_MAXSYMLINKLEN bytes and one that is
\* one byte too long.
Targets == {Rep(121, OSPFS_MAXSYMLINKLEN), Rep(121, OSPFS_MAXSYMLINKLEN + 1)}

Modes == {420}

\* Sizes change_size is asked for on the small image: empty, a partial
\* block, one block, a block and a byte (the indirect range), three blocks.
WantSizes == {0, 1, OSPFS_BLKSIZE, OSPFS_BLKSIZE + 1, 3 * OSPFS_BLKSIZE}

\* Sizes change_size is asked for on the large image: every whole number of
\* blocks up to the maximum file size, one block more, and a partial block.
GrowName == <<97>>
GrowSizes == {k * OSPFS_BLKSIZE : k \in 0 .. (OSPFS_MAXFILEBLKS + 1)} \cup {1}

\* The sizes on both sides of the second indirect block of the
\* doubly-indirect range.
StaleSizes ==
    {k * OSPFS_BLKSIZE : k \in {OSPFS_NDIRECT + 2 * OSPFS_NINDIRECT + 1,
                                OSPFS_NDIRECT + 2 * OSPFS_NINDIRECT + 2}}

\* Names of hard links to that file.
LinkNames == {<<98>>, <<99>>}

\* write(2) on the large image: one byte, at the start of the file and in
\* the second word of the first block that the second indirect block of the
\* doubly-indirect range maps; the byte is the number of a block of the image
\* (the first and the last block of the data region).
WritePos == {0, (OSPFS_NDIRECT + 2 * OSPFS_NINDIRECT) * OSPFS_BLKSIZE + 4}
WriteBytes == {<<FirstData>>, <<os_nblocks - 1>>}
Appends == {FALSE}

\* ------------------------------------------------------------ the system
FreeInode == [size |-> 0, ftype |-> OSPFS_FTYPE_REG, nlink |-> 0, mode |-> 0,
              w |-> ZeroPayload]

\* The reserved inode 0 of the image: its record is not used by the code;
\* images with its oi_nlink zero and non-zero are both considered.
Inode0Nlinks == {0, 1}

Lookup(name) == ospfs_dir_lookup(Machine, OSPFS_ROOT_INO, name)

\* What is recorded of an operation: its name, the file name it was given,
\* one more argument (the inode number of the source of a link, the length
\* of the symlink target, the size asked for, the file position, the user
\* id), its return value, the data it handed back or was given (the path a
\* symlink resolved to, the user buffer of a read or write, with its length
\* and the number of its bytes that can be accessed) and, for a size change
\* or a write, the size of the file and, for a size change, the free bitmap
\* it started from.
Last(op, name, arg, ret) ==
    [op |-> op, name |-> name, arg |-> arg, ret |-> ret, out |-> <<>>,
     count |-> 0, good |-> 0,
     osize |-> IF op \in {"change_size", "write"}
               THEN inodes[Lookup(name)].size ELSE 0,
     fm |-> IF op = "change_size" THEN freemap ELSE {}]

InitImage(ndata) ==
    /\ os_nblocks = FirstData + ndata
    /\ freemap = DataBlocks
    /\ \E n0 \in Inode0Nlinks :
         inodes = [i \in Inos |->
            IF i = 0 THEN [FreeInode EXCEPT !.nlink = n0]
            ELSE IF i = OSPFS_ROOT_INO
                 THEN [FreeInode EXCEPT !.ftype = OSPFS_FTYPE_DIR, !.nlink = 1,
                                        !.mode = 493]
                 ELSE FreeInode]
    /\ disk = [a \in DataWords |-> 0]
    /\ wild = FALSE
    /\ last = [op |-> "init", name |-> <<>>, arg |-> 0, ret |-> 0,
               out |-> <<>>, count |-> 0, good |-> 0, osize |-> 0,
               fm |-> {}]
    /\ filp = [f_pos |-> 0, seen |-> <<>>]

Init == InitImage(NDATA)

\* The effect of an operation that returned x = [m, r].
Commit(x, op, name, arg) ==
    /\ os_nblocks' = os_nblocks
    /\ freemap' = x.m.fm
    /\ inodes' = x.m.ino
    /\ disk' = x.m.dk
    /\ wild' = x.m.wild
    /\ last' = Last(op, name, arg, x.r)
    /\ filp' = filp

\* The effect of an operation that returned x = [m, r] and handed back out.
CommitOut(x, op, name, arg, ret, out) ==
    /\ os_nblocks' = os_nblocks
    /\ freemap' = x.m.fm
    /\ inodes' = x.m.ino
    /\ disk' = x.m.dk
    /\ wild' = x.m.wild
    /\ last' = [Last(op, name, arg, ret) EXCEPT !.out = out]
    /\ filp' = filp

\* The effect of a read or write: out is the data of the user buffer.
CommitIO(x, op, name, arg, ret, out, count, good) ==
    /\ os_nblocks' = os_nblocks
    /\ freemap' = x.m.fm
    /\ inodes' = x.m.ino
    /\ disk' = x.m.dk
    /\ wild' = x.m.wild
    /\ last' = [Last(op, name, arg, ret) EXCEPT !.out = out,
                                               !.count = count,
                                               !.good = good]
    /\ filp' = filp

Create(name, mode) ==
    /\ ~wild
    /\ Commit(ospfs_create(Machine, OSPFS_ROOT_INO, name, mode),
              "create", name, 0)

\* link(2): the source is an existing name that is not a directory.
Link(srcname, name) ==
    /\ ~wild
    /\ Lookup(srcname) > 0
    /\ inodes[Lookup(srcname)].ftype # OSPFS_FTYPE_DIR
    /\ Commit(ospfs_link(Machine, Lookup(srcname), OSPFS_ROOT_INO, name),
              "link", name, Lookup(srcname))

Symlink(name, symname) ==
    /\ ~wild
    /\ Commit(ospfs_symlink(Machine, OSPFS_ROOT_INO, name, symname),
              "symlink", name, Len(symname))

\* unlink(2): the VFS calls ospfs_unlink for a name that resolved.
Unlink(name) ==
    /\ ~wild
    /\ Lookup(name) > 0
    /\ Commit(ospfs_unlink(Machine, OSPFS_ROOT_INO, name, Lookup(name)),
              "unlink", name, 0)

\* A size change of a regular file (ospfs_notify_change with ATTR_SIZE).
ChangeSize(name, want) ==
    /\ ~wild
    /\ Lookup(name) > 0
    /\ inodes[Lookup(name)].ftype = OSPFS_FTYPE_REG
    /\ Commit(change_size(Machine, Lookup(name), want),
              "change_size", name, want)

\* A lookup of a name in the root directory (ospfs_dir_lookup); it reads only.
DirLookup(name) ==
    /\ ~wild
    /\ Commit(Ret(Machine, Lookup(name)), "lookup", name, 0)

\* write(2) on a regular file.
\* buf is the user buffer, of which the first good bytes can be read.
Write(name, f_pos, buf, append, good) ==
    /\ ~wild
    /\ Lookup(name) > 0
    /\ inodes[Lookup(name)].ftype = OSPFS_FTYPE_REG
    /\ CommitIO(ospfs_write(Machine, Lookup(name), f_pos, buf, append, good),
                "write", name, f_pos,
                ospfs_write(Machine, Lookup(name), f_pos, buf, append,
                            good).r,
                buf, Len(buf), good)

\* read(2) on a regular file: count bytes are asked for, and the first good
\* bytes of the user buffer can be written.
Read(name, f_pos, count, good) ==
    /\ ~wild
    /\ Lookup(name) > 0
    /\ inodes[Lookup(name)].ftype = OSPFS_FTYPE_REG
    /\ CommitIO(ospfs_read(Machine, Lookup(name), f_pos, count, good),
                "read", name, f_pos,
                ospfs_read(Machine, Lookup(name), f_pos, count, good).r,
                ospfs_read(Machine, Lookup(name), f_pos, count, good).out,
                count, good)

\* setattr on a live inode: the root directory or a file.  The record keeps
\* the inode number, ia_valid, ia_size and ia_mode.
NotifyChange(i, ia_valid, ia_size, ia_mode) ==
    /\ ~wild
    /\ inodes[i].nlink > 0
    /\ CommitIO(ospfs_notify_change(Machine, i, ia_valid, ia_size, ia_mode),
                "notify_change", <<>>, i,
                ospfs_notify_change(Machine, i, ia_valid, ia_size,
                                    ia_mode).r,
                <<ia_valid>>, ia_size, ia_mode)

\* readdir on the open root directory, with a filldir that accepts budget
\* entries.
Readdir(budget) ==
    /\ ~wild
    /\ os_nblocks' = os_nblocks
    /\ freemap' = freemap
    /\ inodes' = inodes
    /\ disk' = disk
    /\ wild' = ospfs_dir_readdir(Machine, OSPFS_ROOT_INO, filp.f_pos,
                                  budget).wild
    /\ last' = [Last("readdir", <<>>, budget,
                     ospfs_dir_readdir(Machine, OSPFS_ROOT_INO, filp.f_pos,
                                       budget).r)
                  EXCEPT !.out = ospfs_dir_readdir(Machine, OSPFS_ROOT_INO,
                                                   filp.f_pos, budget).out]
    /\ filp' = [f_pos |-> ospfs_dir_readdir(Machine, OSPFS_ROOT_INO,
                                            filp.f_pos, budget).f_pos,
                seen |-> filp.seen
                         \o ospfs_dir_readdir(Machine, OSPFS_ROOT_INO,
                                              filp.f_pos, budget).out]

\* The root directory is opened anew: the position is 0.
Opendir ==
    /\ ~wild
    /\ filp' = [f_pos |-> 0, seen |-> <<>>]
    /\ last' = Last("opendir", <<>>, 0, 0)
    /\ UNCHANGED <<os_nblocks, freemap, inodes, disk, wild>>

\* No readdir has accepted an entry since the directory was opened.
Closed == filp = [f_pos |-> 0, seen |-> <<>>]

Next ==
    \/ \E name \in Names, mode \in Modes : Create(name, mode)
    \/ \E srcname \in Names, name \in Names : Link(srcname, name)
    \/ \E name \in Names, symname \in Targets : Symlink(name, symname)
    \/ \E name \in Names : Unlink(name)
    \/ \E name \in Names, want \in WantSizes : ChangeSize(name, want)
    \/ \E name \in Names : DirLookup(name)

Spec == Init /\ [][Next]_vars

\* One file on the large image, grown and shrunk through the whole pointer
\* tree.
InitGrow == InitImage(NDATA_GROW)

NextGrow ==
    \/ \E mode \in Modes : Create(GrowName, mode)
    \/ Unlink(GrowName)
    \/ \E want \in GrowSizes : ChangeSize(GrowName, want)

SpecGrow == InitGrow /\ [][NextGrow]_vars

\* One file on the large image with hard links (which grow the directory),
\* moved between the sizes on both sides of its second indirect block, and
\* written to.
NextStale ==
    \/ \E mode \in Modes : Create(GrowName, mode)
    \/ \E name \in LinkNames : Link(GrowName, name)
    \/ \E want \in StaleSizes : ChangeSize(GrowName, want)
    \/ \E f_pos \in WritePos, buf \in WriteBytes, append \in Appends :
            Write(GrowName, f_pos, buf, append, Len(buf))

SpecStale == InitGrow /\ [][NextStale]_vars

\* Files with several names on the large image: created, linked, grown into
\* the indirect and the doubly-indirect range, unlinked name by name; and a
\* symlink.
LinkSizes ==
    {OSPFS_BLKSIZE + 1,
     (OSPFS_NDIRECT + 2 * OSPFS_NINDIRECT + 1) * OSPFS_BLKSIZE}
SecondNames == {<<98>>}
LinkTargets == {<<121>>}
SymName == <<115>>

NextLinks ==
    \/ \E mode \in Modes : Create(GrowName, mode)
    \/ \E name \in SecondNames : Link(GrowName, name)
    \/ \E symname \in LinkTargets : Symlink(SymName, symname)
    \/ \E name \in {GrowName, SymName} \cup SecondNames : Unlink(name)
    \/ \E want \in LinkSizes : ChangeSize(GrowName, want)

SpecLinks == InitGrow /\ [][NextLinks]_vars

\* Symlinks that are followed.  Each name is always given the same target:
\* conditional ones (root?A:B, with and without an empty A, and one of
\* OSPFS_MAXSYMLINKLEN bytes), and plain ones (longer and shorter than the
\* prefix, with and without a ':').
TargetOf ==
    (<<1>> :> (RootPrefix \o <<97>> \o Colon \o <<98>>)) @@
    (<<2>> :> (RootPrefix \o Colon \o <<98>>)) @@
    (<<3>> :> (RootPrefix \o Rep(97, OSPFS_MAXSYMLINKLEN - 8) \o Colon
                  \o <<98, 98>>)) @@
    (<<4>> :> Rep(121, 7)) @@
    (<<5>> :> <<121>>) @@
    (<<6>> :> <<120, 58, 121>>)
FollowNames == DOMAIN TargetOf
Uids == {0, 1000}

\* follow_link on a name that resolves to a symlink.
FollowLink(name, uid) ==
    /\ ~wild
    /\ Lookup(name) > 0
    /\ inodes[Lookup(name)].ftype = OSPFS_FTYPE_SYMLINK
    /\ CommitOut(ospfs_follow_link(Machine, Lookup(name), uid),
                 "follow_link", name, uid, 0,
                 ospfs_follow_link(Machine, Lookup(name), uid).r)

NextFollow ==
    \/ \E name \in FollowNames : Symlink(name, TargetOf[name])
    \/ \E name \in FollowNames : Unlink(name)
    \/ \E name \in FollowNames, uid \in Uids : FollowLink(name, uid)

SpecFollow == Init /\ [][NextFollow]_vars

\* Reads and writes of five bytes of one file on the large image, across
\* the boundary of the direct and the indirect range and at the first byte
\* that the second indirect block of the doubly-indirect range maps, on a
\* file that ends at either position; the user buffer can be accessed
\* entirely, not at all, or up to its third byte.
RWBufs == {<<66, 67, 68, 69, 70>>}
RWPos == {OSPFS_NDIRECT * OSPFS_BLKSIZE - 2,
          (OSPFS_NDIRECT + 2 * OSPFS_NINDIRECT) * OSPFS_BLKSIZE}
RWSizes == {OSPFS_NDIRECT * OSPFS_BLKSIZE - 2,
            (OSPFS_NDIRECT + 2 * OSPFS_NINDIRECT) * OSPFS_BLKSIZE}
Goods == {0, 3, 5}

NextRW ==
    \/ \E mode \in Modes : Create(GrowName, mode)
    \/ \E want \in RWSizes : ChangeSize(GrowName, want)
    \/ \E f_pos \in RWPos, buf \in RWBufs, append \in Appends,
          good \in Goods : Write(GrowName, f_pos, buf, append, good)
    \/ \E f_pos \in RWPos, buf \in RWBufs, good \in Goods :
          Read(GrowName, f_pos, Len(buf), good)

SpecRW == InitGrow /\ [][NextRW]_vars

\* Writes of one file on the small image, which a file of two blocks and
\* the directory fill: the writes start inside the last block of the file
\* and end in a block the file does not have yet.
FullSizes == {OSPFS_BLKSIZE, 2 * OSPFS_BLKSIZE}
FullPos == {OSPFS_BLKSIZE - 4, 2 * OSPFS_BLKSIZE - 4}

NextFull ==
    \/ \E mode \in Modes : Create(GrowName, mode)
    \/ \E want \in FullSizes : ChangeSize(GrowName, want)
    \/ \E f_pos \in FullPos, buf \in RWBufs, append \in Appends :
          Write(GrowName, f_pos, buf, append, Len(buf))

SpecFull == Init /\ [][NextFull]_vars

\* The root directory of the small image read in calls of every budget.
\* The names change only while no entry has been accepted since the open:
\* a file, further names for it, a symbolic link, and their removal.
DirNames == {<<98>>, <<99>>}
Budgets == 0 .. (NINODES + 2)

NextDir ==
    \/ \E mode \in Modes : Closed /\ Create(GrowName, mode)
    \/ \E name \in DirNames : Closed /\ Link(GrowName, name)
    \/ \E symname \in LinkTargets : Closed /\ Symlink(SymName, symname)
    \/ \E name \in DirNames \cup {GrowName, SymName} :
          Closed /\ Unlink(name)
    \/ \E budget \in Budgets : Readdir(budget)
    \/ Opendir

SpecDir == Init /\ [][NextDir]_vars

\* Attribute changes of the root directory and of a file on the small
\* image: of the size, of the mode, and of both.
AttrInos == {OSPFS_ROOT_INO, NINODES - 1}
AttrValid == {ATTR_MODE, ATTR_SIZE, ATTR_MODE + ATTR_SIZE}
AttrSizes == {0, OSPFS_BLKSIZE, 2 * OSPFS_BLKSIZE}
AttrModes == {420, 384}

NextAttr ==
    \/ \E mode \in Modes : Create(GrowName, mode)
    \/ \E name \in DirNames : Link(GrowName, name)
    \/ \E i \in AttrInos, ia_valid \in AttrValid, ia_size \in AttrSizes,
          ia_mode \in AttrModes : NotifyChange(i, ia_valid, ia_size, ia_mode)

SpecAttr == Init /\ [][NextAttr]_vars

\* One file grown and shrunk through the whole pointer tree on images of
\* every size from the small to the large one, so that the disk runs full at
\* every allocation of a growth.
InitBlocks == \E ndata \in NDATA .. NDATA_GROW : InitImage(ndata)

SpecBlocks == InitBlocks /\ [][NextGrow]_vars

\* The same, where every operation returns success or -ENOSPC.
Clean == last'.ret \in {0, -ENOSPC}

NextClean ==
    \/ \E mode \in Modes : Create(GrowName, mode) /\ Clean
    \/ Unlink(GrowName) /\ Clean
    \/ \E want \in GrowSizes : ChangeSize(GrowName, want) /\ Clean

SpecClean == InitBlocks /\ [][NextClean]_vars

\* One file given more names than the directory has slots below the second
\* indirect block of the doubly-indirect range, and names taken away again,
\* so that the directory grows entry by entry and has tombstones.
ManyNames == {<<98>>, <<99>>, <<100>>, <<101>>, <<102>>}
GoneNames == {<<98>>, <<100>>}

NextEntries ==
    \/ \E mode \in Modes : Create(GrowName, mode)
    \/ \E name \in ManyNames : Link(GrowName, name)
    \/ \E name \in GoneNames : Unlink(name)

SpecEntries == InitGrow /\ [][NextEntries]_vars

\* ------------------------------------------------------------ properties
\* The image is as it was before the step.
FsUnchanged == UNCHANGED <<os_nblocks, freemap, inodes, disk, wild>>

AllNames ==
    Names \cup {GrowName, SymName} \cup LinkNames \cup FollowNames

\* The arguments of the step's operation pass its length checks.
LengthsOk ==
    /\ Len(last'.name) <= OSPFS_MAXNAMELEN
    /\ last'.op = "symlink" => last'.arg <= OSPFS_MAXSYMLINKLEN

\* The name the step's operation was given has a live entry before the step.
NameExists == find_direntry(Machine, OSPFS_ROOT_INO, last'.name) # NULL

\* C1: a change_size that runs out of free blocks returns -ENOSPC and leaves
\* the file's size, its pointer slots and every bit of the free bitmap as
\* they were before the call.
C1_TransactionalGrowth ==
    [][(last'.op = "change_size" /\ last'.ret = -ENOSPC)
          => (inodes' = inodes /\ freemap' = freemap)]_vars

\* The inodes whose payload is a pointer tree: in use, and not a symlink.
TreeInos ==
    {i \in Inos : inodes[i].nlink > 0 /\ inodes[i].ftype # OSPFS_FTYPE_SYMLINK}

\* C2: for every inode in use that is a regular file or a directory, the
\* block of offset k * OSPFS_BLKSIZE is non-zero exactly for the k below the
\* number of blocks of its size.
C2_PointerTree ==
    ~wild =>
        \A i \in TreeInos : \A k \in 0 .. OSPFS_MAXFILEBLKS :
            (ospfs_inode_blockno(Machine, i, k * OSPFS_BLKSIZE) # 0)
                <=> (k < ospfs_size2nblocks(inodes[i].size))

\* The pointer slots of inode i: its payload words, the words of its
\* indirect block, of its indirect2 block and of the indirect blocks that
\* one names.
IndexBlocks(i) ==
    LET top == {oi_indirect(Machine, i), oi_indirect2(Machine, i)} \ {0}
        inner == {Rd(Machine, ospfs_block(oi_indirect2(Machine, i), j)) :
                     j \in 0 .. (OSPFS_NINDIRECT - 1)} \ {0}
    IN  top \cup (IF oi_indirect2(Machine, i) # 0 THEN inner ELSE {})

Slots(i) ==
    {[ino |-> i, at |-> k] : k \in 0 .. (PayloadWords - 1)}
    \cup {[ino |-> -1, at |-> ospfs_block(b, j)] :
              b \in IndexBlocks(i), j \in 0 .. (OSPFS_NINDIRECT - 1)}

SlotValue(s) ==
    IF s.ino >= 0 THEN inodes[s.ino].w[s.at] ELSE Rd(Machine, s.at)

AllSlots == UNION {Slots(i) : i \in TreeInos}

\* C3: no block number is held by two pointer slots.
C3_NoBlockTwice ==
    ~wild =>
        \A s \in AllSlots, t \in AllSlots :
            (s # t /\ SlotValue(s) # 0) => SlotValue(s) # SlotValue(t)

\* C4: every block number held by a pointer slot is allocated in the bitmap.
C4_ReferencedAllocated ==
    ~wild =>
        \A s \in AllSlots : SlotValue(s) # 0 => SlotValue(s) \notin freemap

\* C5: a successful change_size(f, N) on an empty file followed by
\* change_size(f, 0) succeeds, leaves the free bitmap as it was before the
\* first call, and leaves f with size 0 and all pointer slots 0.
C5_RoundTrip ==
    [][\A n \in AllNames :
          (/\ last.op = "change_size" /\ last.name = n /\ last.ret = 0
           /\ last.osize = 0 /\ last.arg > 0
           /\ last'.op = "change_size" /\ last'.name = n /\ last'.arg = 0
           /\ ~wild')
          => (/\ last'.ret = 0
              /\ freemap' = last.fm
              /\ inodes'[Lookup(n)].size = 0
              /\ inodes'[Lookup(n)].w = ZeroPayload)]_vars

\* C6: after a successful create the name resolves to a non-zero inode
\* number, of an inode that had oi_nlink = 0 before the call and is now a
\* regular file with oi_nlink = 1, size 0, the given mode and all block
\* pointers 0.
C6_CreatePost ==
    [][\A n \in AllNames :
          (last'.op = "create" /\ last'.name = n /\ last'.ret = 0 /\ ~wild')
          => (/\ Lookup(n)' > 0
              /\ inodes[Lookup(n)'].nlink = 0
              /\ inodes'[Lookup(n)'].nlink = 1
              /\ inodes'[Lookup(n)'].ftype = OSPFS_FTYPE_REG
              /\ inodes'[Lookup(n)'].size = 0
              /\ inodes'[Lookup(n)'].mode \in Modes
              /\ inodes'[Lookup(n)'].w = ZeroPayload)]_vars

\* C7: with no blank entry in the directory and no free block, create, link
\* and symlink of a new name return -ENOSPC and write nothing.
C7_FullDisk ==
    [][(/\ last'.op \in {"create", "link", "symlink"}
        /\ LengthsOk /\ ~NameExists
        /\ freemap = {}
        /\ BlankOffs(Machine, OSPFS_ROOT_INO) = {})
          => (last'.ret = -ENOSPC /\ disk' = disk /\ ~wild')]_vars

\* C8: with no inode whose oi_nlink is 0, create and symlink of a new name
\* return -ENOSPC and leave directory, inode table and bitmap unchanged.
C8_NoFreeInode ==
    [][(/\ last'.op \in {"create", "symlink"}
        /\ LengthsOk /\ ~NameExists
        /\ \A i \in Inos : inodes[i].nlink # 0)
          => (last'.ret = -ENOSPC /\ FsUnchanged)]_vars

\* C9 as stated: create, link and symlink of a name that has a live entry
\* return -EEXIST and change nothing.
C9_ExistsAnyTarget ==
    [][(last'.op \in {"create", "link", "symlink"} /\ NameExists)
          => (last'.ret = -EEXIST /\ FsUnchanged)]_vars

\* C9 amended: create, link and symlink (with a target of at most
\* OSPFS_MAXSYMLINKLEN bytes) of a name that has a live entry return -EEXIST
\* and change nothing.
C9_Exists ==
    [][(last'.op \in {"create", "link", "symlink"} /\ NameExists /\ LengthsOk)
          => (last'.ret = -EEXIST /\ FsUnchanged)]_vars

\* C9 witness: a link to a name that has a live entry was refused.
C9_Witness ==
    /\ last.op = "link" /\ last.ret = -EEXIST
    /\ find_direntry(Machine, OSPFS_ROOT_INO, last.name) # NULL

\* C10: create, symlink and lookup return -ENAMETOOLONG exactly when the
\* name is longer than OSPFS_MAXNAMELEN or (symlink) the target is longer
\* than OSPFS_MAXSYMLINKLEN, and then change nothing.
C10_NameLength ==
    [][(last'.op \in {"create", "symlink", "lookup"})
          => (/\ (last'.ret = -ENAMETOOLONG) <=> ~LengthsOk
              /\ (last'.ret = -ENAMETOOLONG) => FsUnchanged)]_vars

\* C10 witness: a create with a name one byte too long was refused in a
\* directory that has entries.
C10_Witness ==
    /\ last.op = "create" /\ last.ret = -ENAMETOOLONG
    /\ Len(last.name) = OSPFS_MAXNAMELEN + 1
    /\ inodes[OSPFS_ROOT_INO].size > 0

\* The names that resolve to inode i, and the blocks its pointer slots name.
NamesOf(i) == {n \in AllNames : Lookup(n) = i}
TreeBlocks(i) == {SlotValue(s) : s \in Slots(i)} \ {0}
BlockWords(b) == {ospfs_block(b, j) : j \in 0 .. (OSPFS_NINDIRECT - 1)}

\* C11: after a successful link the new name resolves to the inode of the
\* source; unlinking one of several names of a regular file leaves its size,
\* block pointers, contents and the bitmap unchanged and the other names
\* resolving to it; the unlink of its last name leaves every block of the
\* file free; unlinking a symlink does not change the bitmap.
C11_LinkLifecycle ==
    [][\A n \in AllNames : \A i \in Inos :
          /\ (last'.op = "link" /\ last'.name = n /\ last'.ret = 0 /\ ~wild')
                => Lookup(n)' = last'.arg
          /\ (/\ last'.op = "unlink" /\ last'.name = n /\ ~wild'
              /\ i = Lookup(n) /\ inodes[i].ftype = OSPFS_FTYPE_REG
              /\ Cardinality(NamesOf(i)) >= 2)
                => (/\ inodes'[i].size = inodes[i].size
                    /\ inodes'[i].w = inodes[i].w
                    /\ freemap' = freemap
                    /\ \A b \in TreeBlocks(i) : \A a \in BlockWords(b) :
                           disk'[a] = disk[a]
                    /\ \A n2 \in NamesOf(i) \ {n} : Lookup(n2)' = i)
          /\ (/\ last'.op = "unlink" /\ last'.name = n /\ ~wild'
              /\ i = Lookup(n) /\ inodes[i].ftype = OSPFS_FTYPE_REG
              /\ NamesOf(i) = {n})
                => TreeBlocks(i) \subseteq freemap'
          /\ (/\ last'.op = "unlink" /\ last'.name = n /\ ~wild'
              /\ i = Lookup(n) /\ inodes[i].ftype = OSPFS_FTYPE_SYMLINK)
                => freemap' = freemap]_vars

\* create(name) followed by unlink(name), from the filesystem m: x is what
\* create returned; the unlink is of the inode the name then resolves to.
CreateUnlink_created(x, name) ==
    IF x.r = 0 /\ ~x.m.wild /\ ospfs_dir_lookup(x.m, OSPFS_ROOT_INO, name) > 0
    THEN [ok |-> TRUE,
          ino |-> ospfs_dir_lookup(x.m, OSPFS_ROOT_INO, name),
          u |-> ospfs_unlink(x.m, OSPFS_ROOT_INO, name,
                             ospfs_dir_lookup(x.m, OSPFS_ROOT_INO, name))]
    ELSE [ok |-> FALSE, ino |-> 0, u |-> x]

CreateUnlink(m, name, mode) ==
    CreateUnlink_created(ospfs_create(m, OSPFS_ROOT_INO, name, mode), name)

\* Both calls of the round trip returned 0.
BothOk(t) == t.ok /\ t.u.r = 0 /\ ~t.u.m.wild

\* The names a create can succeed with in the current state.
NewNames ==
    {n \in AllNames : /\ Len(n) <= OSPFS_MAXNAMELEN
                      /\ find_direntry(Machine, OSPFS_ROOT_INO, n) = NULL}

\* The words of the directory's entries, for a directory of the given size.
EntryWords(m, size) ==
    UNION {{ospfs_inode_data(m, OSPFS_ROOT_INO, off) + j :
                j \in 0 .. (OSPFS_DIRENTRY_SIZE \div 4 - 1)} :
            off \in EntryOffs(size)}

\* The directory after the round trip t is the directory of m, or that
\* directory with one more block whose entry is blank.
SameOrOneBlock(m, t) ==
    \/ t.u.m.ino[OSPFS_ROOT_INO] = m.ino[OSPFS_ROOT_INO]
    \/ /\ t.u.m.ino[OSPFS_ROOT_INO].size =
             m.ino[OSPFS_ROOT_INO].size + OSPFS_BLKSIZE
       /\ od_ino(t.u.m, ospfs_inode_data(t.u.m, OSPFS_ROOT_INO,
                                         m.ino[OSPFS_ROOT_INO].size)) = 0

\* C12 as stated: the round trip restores the bitmap, the inode table and
\* the bytes of the directory, but for one more directory block with a blank
\* entry.
C12_RestoresBytes ==
    ~wild =>
        \A n \in NewNames, mode \in Modes :
            BothOk(CreateUnlink(Machine, n, mode)) =>
                /\ SameOrOneBlock(Machine, CreateUnlink(Machine, n, mode))
                /\ \A j \in Inos \ {OSPFS_ROOT_INO} :
                       CreateUnlink(Machine, n, mode).u.m.ino[j] = inodes[j]
                /\ \A a \in EntryWords(Machine, inodes[OSPFS_ROOT_INO].size) :
                       CreateUnlink(Machine, n, mode).u.m.dk[a] = disk[a]
                /\ (CreateUnlink(Machine, n, mode).u.m.ino[OSPFS_ROOT_INO]
                        = inodes[OSPFS_ROOT_INO])
                     => CreateUnlink(Machine, n, mode).u.m.fm = freemap

\* The blocks of the root directory of m: its data blocks and index blocks.
DirTree(m) ==
    ({ospfs_inode_blockno(m, OSPFS_ROOT_INO, off) :
          off \in EntryOffs(m.ino[OSPFS_ROOT_INO].size)}
     \cup {oi_indirect(m, OSPFS_ROOT_INO), oi_indirect2(m, OSPFS_ROOT_INO)}
     \cup (IF oi_indirect2(m, OSPFS_ROOT_INO) = 0 THEN {}
           ELSE {Rd(m, ospfs_block(oi_indirect2(m, OSPFS_ROOT_INO), j)) :
                     j \in 0 .. (OSPFS_NINDIRECT - 1)})) \ {0}

\* What the round trip t restores of the filesystem m: the bitmap but for
\* the blocks the directory gained, every other inode, the claimed inode as
\* a free one with size 0 and zeroed pointers, and every entry's inode
\* number and every live entry's name.
Restored(m, t) ==
    /\ SameOrOneBlock(m, t)
    /\ t.u.m.fm \subseteq m.fm
    /\ m.fm \ t.u.m.fm = DirTree(t.u.m) \ DirTree(m)
    /\ \A j \in Inos \ {OSPFS_ROOT_INO, t.ino} : t.u.m.ino[j] = m.ino[j]
    /\ m.ino[t.ino].nlink = 0
    /\ t.u.m.ino[t.ino].nlink = 0
    /\ t.u.m.ino[t.ino].size = 0
    /\ t.u.m.ino[t.ino].w = ZeroPayload
    /\ \A off \in EntryOffs(m.ino[OSPFS_ROOT_INO].size) :
          /\ od_ino(t.u.m, ospfs_inode_data(t.u.m, OSPFS_ROOT_INO, off))
                = od_ino(m, ospfs_inode_data(m, OSPFS_ROOT_INO, off))
          /\ od_ino(m, ospfs_inode_data(m, OSPFS_ROOT_INO, off)) # 0
                => \A j \in 1 .. (OSPFS_DIRENTRY_SIZE \div 4 - 1) :
                      Rd(t.u.m, ospfs_inode_data(t.u.m, OSPFS_ROOT_INO, off) + j)
                        = Rd(m, ospfs_inode_data(m, OSPFS_ROOT_INO, off) + j)

\* C12 amended: create(name) followed by unlink(name), both successful,
\* restores the bitmap (but for the blocks of a directory block that was
\* added), every inode but the claimed one, which is left free with size 0
\* and zeroed block pointers, and every live directory entry.
C12_RoundTrip ==
    ~wild =>
        \A n \in NewNames, mode \in Modes :
            BothOk(CreateUnlink(Machine, n, mode)) =>
                Restored(Machine, CreateUnlink(Machine, n, mode))

\* C12 witness: after an unlink, the round trip succeeds in a directory that
\* has a blank entry, which it uses and leaves blank.
C12_Witness ==
    /\ ~wild
    /\ last.op = "unlink" /\ last.ret = 0
    /\ inodes[OSPFS_ROOT_INO].size > 0
    /\ \E n \in NewNames, mode \in Modes :
          /\ BothOk(CreateUnlink(Machine, n, mode))
          /\ CreateUnlink(Machine, n, mode).u.m.ino[OSPFS_ROOT_INO]
                = inodes[OSPFS_ROOT_INO]

\* The target has the form root?A:B; its A and B.
Prefixed(s) ==
    Len(s) >= Len(RootPrefix) /\ SubSeq(s, 1, Len(RootPrefix)) = RootPrefix
Conditional(s) ==
    Prefixed(s) /\ \E k \in 1 .. Len(s) : s[k] = Colon[1]
FirstColon(s) == Min({k \in 1 .. Len(s) : s[k] = Colon[1]})
RootTarget(s) == SubSeq(s, Len(RootPrefix) + 1, FirstColon(s) - 1)
UserTarget(s) == SubSeq(s, FirstColon(s) + 1, Len(s))

\* C13: a symlink made with the target root?A:B resolves to A for user id 0
\* and to B for any other user id.
C13_Conditional ==
    [][\A n \in FollowNames :
          (last'.op = "follow_link" /\ last'.name = n
           /\ Conditional(TargetOf[n]))
          => last'.out = (IF last'.arg = 0 THEN RootTarget(TargetOf[n])
                          ELSE UserTarget(TargetOf[n]))]_vars

\* C13 witness: a conditional symlink with a non-empty A was followed by a
\* user other than 0 and resolved to B; the stored string has been split.
C13_Witness ==
    /\ last.op = "follow_link" /\ last.arg # 0
    /\ Conditional(TargetOf[last.name])
    /\ last.out = UserTarget(TargetOf[last.name])
    /\ Len(RootTarget(TargetOf[last.name])) > 0
    /\ \A k \in 0 .. (SymBytes - 1) :
          SymByte(inodes[Lookup(last.name)].w, k) # Colon[1]

\* C14: a symlink made with a target that does not start with root?
\* resolves to that target, for every user id.
C14_Plain ==
    [][\A n \in FollowNames :
          (last'.op = "follow_link" /\ last'.name = n
           /\ ~Prefixed(TargetOf[n]))
          => last'.out = TargetOf[n]]_vars

\* The blocks a file of n blocks holds, index blocks included, and the
\* number of free blocks a growth from a bytes to b bytes takes.
TreeSize(n) ==
    n + (IF n > OSPFS_NDIRECT THEN 1 ELSE 0)
      + (IF n > OSPFS_NDIRECT + OSPFS_NINDIRECT
         THEN 1 + (n - OSPFS_NDIRECT - 1) \div OSPFS_NINDIRECT ELSE 0)
Needed(a, b) ==
    IF b <= a THEN 0
    ELSE TreeSize(ospfs_size2nblocks(b)) - TreeSize(ospfs_size2nblocks(a))
Max(a, b) == IF a >= b THEN a ELSE b

\* The byte of file i at offset k, as a read of one byte delivers it.
FileByte(i, k) == ospfs_read(Machine, i, k, 1, 1).out

\* C15: a write at an offset up to the size, with enough free blocks and no
\* fault, returns the length of the buffer and sets the size to the larger
\* of the old size and the end of the range; a read of the range then
\* returns the buffer, and the bytes the file had outside the range are
\* unchanged.
C15_WriteRead ==
    [][\A i \in Inos, off \in RWPos, buf \in RWBufs :
          (/\ last'.op = "write" /\ i = Lookup(last'.name)
           /\ last'.arg = off /\ last'.out = buf
           /\ last'.good >= Len(buf)
           /\ off <= inodes[i].size
           /\ Cardinality(freemap)
                 >= Needed(inodes[i].size, Max(inodes[i].size, off + Len(buf)))
           /\ ~wild')
          => (/\ last'.ret = Len(buf)
              /\ inodes'[i].size = Max(inodes[i].size, off + Len(buf))
              /\ ospfs_read(Machine, i, off, Len(buf), Len(buf))'.r
                    = Len(buf)
              /\ ospfs_read(Machine, i, off, Len(buf), Len(buf))'.out = buf
              /\ \A k \in 0 .. (inodes[i].size - 1) :
                    (k < off \/ k >= off + Len(buf))
                        => FileByte(i, k)' = FileByte(i, k))]_vars

\* C16: a write that has to grow the file and finds fewer free blocks than
\* the growth takes returns -ENOSPC and leaves the size, the pointers and
\* the contents of the file and the bitmap as they were.
C16_NoSpace ==
    [][\A i \in Inos, off \in FullPos, buf \in RWBufs :
          (/\ last'.op = "write" /\ i = Lookup(last'.name)
           /\ last'.arg = off /\ last'.out = buf
           /\ last'.good >= Len(buf)
           /\ off <= inodes[i].size
           /\ Cardinality(freemap) < Needed(inodes[i].size, off + Len(buf))
           /\ ~wild')
          => (/\ last'.ret = -ENOSPC
              /\ inodes'[i] = inodes[i]
              /\ freemap' = freemap
              /\ \A k \in 0 .. (inodes[i].size - 1) :
                    FileByte(i, k)' = FileByte(i, k))]_vars

\* The bytes the first copy of a transfer of count bytes at f_pos moves:
\* the loops copy up to the end of the block.
FirstChunk(f_pos, count) ==
    Min({count, OSPFS_BLKSIZE - (f_pos % OSPFS_BLKSIZE)})

\* C17: a read or write inside the file whose copy faults after a copy of
\* this call has moved its bytes returns the positive count of the bytes
\* moved so far; with no byte of the user buffer accessible it returns
\* -EFAULT.
C17_PartialFault ==
    [][\A i \in Inos, off \in RWPos, buf \in RWBufs :
          (/\ last'.op \in {"read", "write"} /\ i = Lookup(last'.name)
           /\ last'.arg = off /\ last'.count = Len(buf)
           /\ off + Len(buf) <= inodes[i].size
           /\ last'.good < Len(buf)
           /\ ~wild')
          => (/\ last'.good = 0 => last'.ret = -EFAULT
              /\ last'.good >= FirstChunk(off, Len(buf))
                    => (last'.ret > 0 /\ last'.ret <= last'.good))]_vars

\* The entries of directory dir from offset off on that are in use, in the
\* order of their slots, as filldir is to receive them.
RECURSIVE LiveFrom(_, _, _)
LiveFrom(m, dir, off) ==
    IF off >= m.ino[dir].size THEN <<>>
    ELSE (IF od_ino(m, ospfs_inode_data(m, dir, off)) > 0
          THEN <<Dirent(Bytes(m, od_name(ospfs_inode_data(m, dir, off)),
                              strlen(m, od_name(ospfs_inode_data(m, dir,
                                                                 off)))),
                        off + 2,
                        od_ino(m, ospfs_inode_data(m, dir, off)),
                        entry_type(m.ino[od_ino(m, ospfs_inode_data(m, dir,
                                                              off))].ftype))>>
          ELSE <<>>)
         \o LiveFrom(m, dir, off + OSPFS_DIRENTRY_SIZE)

\* What a reader of the root directory is to receive.
Stream ==
    <<Dirent(<<46>>, 0, OSPFS_ROOT_INO, DT_DIR),
      Dirent(<<46, 46>>, 1, OSPFS_ROOT_INO, DT_DIR)>>
    \o LiveFrom(Machine, OSPFS_ROOT_INO, 0)

IsPrefix(s, t) == Len(s) <= Len(t) /\ s = SubSeq(t, 1, Len(s))

\* C18: a readdir from position 0 whose filldir accepts every entry emits
\* ".", "..", and each entry in use once in slot order with its name, inode
\* number and type, and no blank entry; it returns 1 and leaves the position
\* at 2 + the size of the directory, and a call from that position emits
\* nothing and returns 1.
C18_Stream ==
    [][(/\ last'.op = "readdir" /\ filp.f_pos = 0
        /\ last'.arg >= Len(Stream)
        /\ ~wild')
       => (/\ last'.out = Stream
           /\ last'.ret = 1
           /\ filp'.f_pos = 2 + inodes[OSPFS_ROOT_INO].size
           /\ \A budget \in Budgets :
                 ospfs_dir_readdir(Machine, OSPFS_ROOT_INO,
                                   2 + inodes[OSPFS_ROOT_INO].size, budget)
                   = [r |-> 1, f_pos |-> 2 + inodes[OSPFS_ROOT_INO].size,
                      out |-> <<>>, wild |-> FALSE])]_vars

\* A whole directory was read in one call: it has a blank entry before an
\* entry in use, and two names or more.
C18_Witness ==
    /\ last.op = "readdir" /\ last.ret = 1 /\ ~wild
    /\ last.out = filp.seen
    /\ last.out = Stream
    /\ \E k \in 3 .. Len(Stream) :
          Stream[k].f_pos > 2 + (k - 3) * OSPFS_DIRENTRY_SIZE
    /\ Len(Stream) >= 4

\* C19: a readdir whose filldir refuses an entry returns 0 and stores the
\* position of the refused entry; over the calls since the open, with the
\* directory unchanged, the accepted entries are a prefix of the stream of
\* the directory, and the call that returns 1 has completed the stream.
C19_Resume ==
    [][(last'.op = "readdir" /\ ~wild')
       => (/\ IsPrefix(filp'.seen, Stream)
           /\ IF Len(Stream) - Len(filp.seen) > last'.arg
              THEN /\ last'.ret = 0
                   /\ Len(filp'.seen) = Len(filp.seen) + last'.arg
                   /\ filp'.f_pos = Stream[Len(filp'.seen) + 1].f_pos
              ELSE /\ last'.ret = 1
                   /\ filp'.seen = Stream)]_vars

\* A directory with a blank entry before an entry in use was read to its
\* end in three calls or more, filldir having refused ".", or "..", and an
\* entry of the directory.
C19_Witness ==
    /\ last.op = "readdir" /\ last.ret = 1 /\ ~wild
    /\ filp.seen = Stream
    /\ Len(last.out) > 0 /\ Len(last.out) + 2 < Len(filp.seen)
    /\ \E k \in 3 .. Len(Stream) :
          Stream[k].f_pos > 2 + (k - 3) * OSPFS_DIRENTRY_SIZE

\* The block that holds block index b of file i, as a lookup finds it.
BlockAt(i, b) == ospfs_inode_blockno(Machine, i, b * OSPFS_BLKSIZE)

\* C20: after a change_size that returned 0 the size is the wanted size, the
\* file has a block of its own, not free, at each of the
\* ceil(want / BLKSIZE) block indexes, and the bitmap has changed by the
\* blocks the two sizes differ by; between sizes of the same number of
\* blocks the bitmap, the pointers of the inode and the index blocks are
\* unchanged.
C20_ExactSize ==
    [][\A i \in Inos, want \in GrowSizes :
          (/\ last'.op = "change_size" /\ i = Lookup(last'.name)
           /\ last'.arg = want /\ last'.ret = 0
           /\ ~wild')
          => (/\ inodes'[i].size = want
              /\ \A b \in 0 .. (ospfs_size2nblocks(want) - 1) :
                    /\ BlockAt(i, b)' \in DataBlocks \ freemap'
                    /\ \A c \in 0 .. (b - 1) : BlockAt(i, c)' # BlockAt(i, b)'
              /\ Cardinality(freemap) - Cardinality(freemap')
                    = TreeSize(ospfs_size2nblocks(want))
                      - TreeSize(ospfs_size2nblocks(inodes[i].size))
              /\ ospfs_size2nblocks(inodes[i].size) = ospfs_size2nblocks(want)
                    => (/\ freemap' = freemap
                        /\ disk' = disk
                        /\ inodes'[i] = [inodes[i] EXCEPT !.size = want]))]_vars

\* C21: after a symlink that returned 0 the name resolves to an entry with
\* a non-zero inode number, whose inode is a symbolic link with one link,
\* the length of the target as its size and the target followed by a NUL in
\* its buffer; the bitmap changes only with the directory one block longer.
C21_SymlinkPost ==
    [][\A n \in FollowNames :
          (last'.op = "symlink" /\ last'.name = n /\ last'.ret = 0
           /\ ~wild')
          => (/\ Lookup(n)' > 0
              /\ inodes'[Lookup(n)'].ftype = OSPFS_FTYPE_SYMLINK
              /\ inodes'[Lookup(n)'].nlink = 1
              /\ inodes'[Lookup(n)'].size = Len(TargetOf[n])
              /\ CStr(inodes'[Lookup(n)'].w, 0) = TargetOf[n]
              /\ freemap' # freemap
                    => inodes'[OSPFS_ROOT_INO].size
                         = inodes[OSPFS_ROOT_INO].size + OSPFS_BLKSIZE)]_vars

\* The boot block, the superblock, the blocks of the bitmap and the blocks
\* of the inode table.
ReservedBlocks == 0 .. (FirstData - 1)

\* C22: no reserved block is marked free in the bitmap, in any reachable
\* state.
C22_Reserved == freemap \cap ReservedBlocks = {}

\* C23: a notify_change that carries a size change for a directory returns
\* -EPERM and leaves the inode of the directory (size, pointers, mode), its
\* blocks and the bitmap unchanged, with or without a mode change in the
\* same request.
C23_DirResize ==
    [][\A i \in Inos :
          (/\ last'.op = "notify_change" /\ last'.arg = i
           /\ HasBit(last'.out[1], ATTR_SIZE)
           /\ inodes[i].ftype = OSPFS_FTYPE_DIR)
          => (/\ last'.ret = -EPERM
              /\ inodes' = inodes
              /\ disk' = disk
              /\ freemap' = freemap
              /\ ~wild')]_vars

\* A request to change both the size and the mode of the root directory,
\* to a size and a mode it does not have, was refused; the directory has
\* entries.
C23_Witness ==
    /\ last.op = "notify_change" /\ last.arg = OSPFS_ROOT_INO
    /\ last.out = <<ATTR_MODE + ATTR_SIZE>>
    /\ last.ret = -EPERM
    /\ inodes[OSPFS_ROOT_INO].size > OSPFS_BLKSIZE
    /\ last.count # inodes[OSPFS_ROOT_INO].size
    /\ last.good # inodes[OSPFS_ROOT_INO].mode

\* The slot of file block index b in its container as the lookup of
\* ospfs_inode_blockno takes it.
LookupSlot(b) ==
    IF b < OSPFS_NDIRECT THEN b
    ELSE IF b < OSPFS_NDIRECT + OSPFS_NINDIRECT THEN b - OSPFS_NDIRECT
    ELSE (b - (OSPFS_NDIRECT + OSPFS_NINDIRECT)) % OSPFS_NINDIRECT

\* The indexes below ND + NI + NI * NI of the blocks that files in use have.
HeldIndexes ==
    {b \in 0 .. (OSPFS_NDIRECT + OSPFS_NINDIRECT
                  + OSPFS_NINDIRECT * OSPFS_NINDIRECT - 1) :
        \E i \in Inos : /\ inodes[i].nlink > 0
                        /\ inodes[i].ftype # OSPFS_FTYPE_SYMLINK
                        /\ b < ospfs_size2nblocks(inodes[i].size)}

\* C24: for every block index b below ND + NI + NI * NI that a file has
\* been given, direct_index(b) is b in the direct range, b - ND in the
\* indirect range and (b - ND - NI) mod NI in the doubly-indirect range; it
\* is below NI from ND on, and it is the slot the lookup reads for b.
C24_IndexArithmetic ==
    \A b \in HeldIndexes :
       /\ b < OSPFS_NDIRECT => direct_index(b) = b
       /\ (b >= OSPFS_NDIRECT /\ b < OSPFS_NDIRECT + OSPFS_NINDIRECT)
             => direct_index(b) = b - OSPFS_NDIRECT
       /\ b >= OSPFS_NDIRECT + OSPFS_NINDIRECT
             => direct_index(b)
                  = (b - OSPFS_NDIRECT - OSPFS_NINDIRECT) % OSPFS_NINDIRECT
       /\ b >= OSPFS_NDIRECT => direct_index(b) < OSPFS_NINDIRECT
       /\ direct_index(b) = LookupSlot(b)

\* The words of the index blocks that inode i has.
IndexWords(i) == UNION {BlockWords(b) : b \in IndexBlocks(i)}

\* The result x of add_block or remove_block on inode i has left the inode,
\* the words of the index blocks the inode had, and the bitmap as they were.
Untouched(x, i) ==
    /\ x.m.ino[i] = inodes[i]
    /\ x.m.fm = freemap
    /\ \A a \in IndexWords(i) \cap DataWords : x.m.dk[a] = disk[a]
    /\ ~x.m.wild

\* C25: in every reachable state, an add_block on a file or directory that
\* returns an error leaves the size and the pointers of the inode, the slots
\* of the index blocks it had and the whole bitmap as they were.
C25_AddBlockAtomic ==
    ~wild =>
        \A i \in TreeInos :
            add_block(Machine, i).r < 0 => Untouched(add_block(Machine, i), i)

\* The file is at the end of the indirect range with two blocks free: the
\* third allocation of add_block fails.
C25_Witness ==
    /\ ~wild
    /\ \E i \in TreeInos :
          /\ ospfs_size2nblocks(inodes[i].size)
                = OSPFS_NDIRECT + OSPFS_NINDIRECT
          /\ Cardinality(freemap) = 2
          /\ add_block(Machine, i).r = -ENOSPC

\* The blocks add_block takes for a file of n blocks: the data block, and
\* the index blocks that block index n is the first to need.
Taken(n) ==
    1 + (IF n = OSPFS_NDIRECT THEN 1 ELSE 0)
      + (IF n = OSPFS_NDIRECT + OSPFS_NINDIRECT THEN 2 ELSE 0)
      + (IF /\ n > OSPFS_NDIRECT + OSPFS_NINDIRECT
            /\ (n - OSPFS_NDIRECT - OSPFS_NINDIRECT) % OSPFS_NINDIRECT = 0
         THEN 1 ELSE 0)

\* The result x of an add_block on inode i of n blocks is as it is to be
\* after a success.
Added(x, i, n) ==
    /\ x.m.ino[i].size = (n + 1) * OSPFS_BLKSIZE
    /\ ospfs_inode_blockno(x.m, i, n * OSPFS_BLKSIZE) \in freemap
    /\ \A b \in 0 .. (n - 1) :
          ospfs_inode_blockno(x.m, i, b * OSPFS_BLKSIZE) = BlockAt(i, b)
    /\ x.m.fm \subseteq freemap
    /\ Cardinality(freemap \ x.m.fm) = Taken(n)

\* C26: in every reachable state, an add_block on a file or directory of n
\* blocks that returns 0 leaves the size (n + 1) * BLKSIZE, has block index n
\* resolve to a block that was free, leaves the blocks of the indexes below
\* n as they were, and takes 1 block from the bitmap, 1 more for n = ND, 2
\* more for n = ND + NI, and 1 more for a later n that starts an indirect
\* block.
C26_AddBlockSuccess ==
    ~wild =>
        \A i \in TreeInos :
            (add_block(Machine, i).r = 0 /\ ~add_block(Machine, i).m.wild)
                => Added(add_block(Machine, i), i,
                         ospfs_size2nblocks(inodes[i].size))

\* The words of the blocks that the result x of an add_block has taken from
\* the bitmap, and those of them that are not zero.
NewWords(x) == UNION {BlockWords(b) : b \in freemap \ x.m.fm}
NonZeroNew(x) == {a \in NewWords(x) \cap DataWords : x.m.dk[a] # 0}

\* C27: in every reachable state, after a successful add_block the blocks it
\* has taken are zero but for the one slot set in each new index block: the
\* new data block is all zero, whatever the blocks held before.
C27_ZeroOnAllocation ==
    ~wild =>
        \A i \in TreeInos :
            (add_block(Machine, i).r = 0 /\ ~add_block(Machine, i).m.wild)
                => /\ Cardinality(NonZeroNew(add_block(Machine, i)))
                        <= Cardinality(freemap \ add_block(Machine, i).m.fm) - 1
                   /\ \A b \in freemap \ add_block(Machine, i).m.fm :
                         Cardinality(BlockWords(b)
                                     \cap NonZeroNew(add_block(Machine, i)))
                           <= 1

\* The indirect block that holds the slot of file block index b of inode i,
\* and the address of that slot, for b at or above ND.
IndirectOf(i, b) ==
    IF b < OSPFS_NDIRECT + OSPFS_NINDIRECT THEN oi_indirect(Machine, i)
    ELSE Rd(Machine, ospfs_block(oi_indirect2(Machine, i),
                (b - OSPFS_NDIRECT - OSPFS_NINDIRECT) \div OSPFS_NINDIRECT))
FirstOfIndirect(b) ==
    \/ b = OSPFS_NDIRECT
    \/ /\ b >= OSPFS_NDIRECT + OSPFS_NINDIRECT
       /\ (b - OSPFS_NDIRECT - OSPFS_NINDIRECT) % OSPFS_NINDIRECT = 0
Freed(i, b) ==
    {BlockAt(i, b)}
    \cup (IF FirstOfIndirect(b) THEN {IndirectOf(i, b)} ELSE {})
    \cup (IF b = OSPFS_NDIRECT + OSPFS_NINDIRECT
          THEN {oi_indirect2(Machine, i)} ELSE {})

\* The result x of a remove_block on inode i of n blocks.
Removed(x, i, n) ==
    /\ x.m.ino[i].size = (n - 1) * OSPFS_BLKSIZE
    /\ freemap \subseteq x.m.fm
    /\ x.m.fm \ freemap = Freed(i, n - 1)
    /\ (n - 1 < OSPFS_NDIRECT) => x.m.ino[i].w[n - 1] = 0
    /\ (n - 1 >= OSPFS_NDIRECT /\ ~FirstOfIndirect(n - 1))
          => x.m.dk[ospfs_block(IndirectOf(i, n - 1), LookupSlot(n - 1))] = 0
    /\ (oi_indirect(x.m, i) = 0) <=> (n - 1 <= OSPFS_NDIRECT)
    /\ (oi_indirect2(x.m, i) = 0) <=> (n - 1 <= OSPFS_NDIRECT + OSPFS_NINDIRECT)
    /\ (n - 1 > OSPFS_NDIRECT + OSPFS_NINDIRECT /\ FirstOfIndirect(n - 1))
          => x.m.dk[ospfs_block(oi_indirect2(Machine, i),
                 (n - 1 - OSPFS_NDIRECT - OSPFS_NINDIRECT)
                     \div OSPFS_NINDIRECT)] = 0

\* C28: in every reachable state, a remove_block that succeeds on a file of
\* n >= 1 blocks frees the data block of index n - 1 and zeroes its slot,
\* lowers the size to (n - 1) * BLKSIZE, frees the indirect block and zeroes
\* its parent pointer exactly when index n - 1 is the first slot of that
\* indirect block, frees indirect2 and zeroes the inode field exactly when
\* n - 1 = ND + NI, and changes no other bit of the bitmap.
C28_RemoveBlockSuccess ==
    ~wild =>
        \A i \in TreeInos :
            (/\ ospfs_size2nblocks(inodes[i].size) >= 1
             /\ remove_block(Machine, i).r = 0
             /\ ~remove_block(Machine, i).m.wild)
                => Removed(remove_block(Machine, i), i,
                           ospfs_size2nblocks(inodes[i].size))

\* ceil((n - ND - NI) / NI): the indirect blocks a file of n blocks has under
\* its indirect2 block.
SecondLevel(n) ==
    (n - OSPFS_NDIRECT - OSPFS_NINDIRECT + OSPFS_NINDIRECT - 1)
        \div OSPFS_NINDIRECT

Shaped(i, n) ==
    /\ \A k \in 0 .. (OSPFS_NDIRECT - 1) : k >= n => inodes[i].w[k] = 0
    /\ (oi_indirect(Machine, i) # 0) <=> (n > OSPFS_NDIRECT)
    /\ (oi_indirect2(Machine, i) # 0) <=> (n > OSPFS_NDIRECT + OSPFS_NINDIRECT)
    /\ (n > OSPFS_NDIRECT + OSPFS_NINDIRECT) =>
          \A j \in 0 .. (OSPFS_NINDIRECT - 1) :
              (Rd(Machine, ospfs_block(oi_indirect2(Machine, i), j)) # 0)
                  <=> (j < SecondLevel(n))

\* C29: in every reachable state, every regular file or directory in use with
\* n = ceil(size / BLKSIZE) blocks has 0 in every direct slot from n on, a
\* non-zero indirect exactly when n > ND, a non-zero indirect2 exactly when
\* n > ND + NI, and then exactly the first ceil((n - ND - NI) / NI) slots of
\* the indirect2 block non-zero.
C29_TreeShape ==
    \A i \in TreeInos : Shaped(i, ospfs_size2nblocks(inodes[i].size))

\* C30: a link whose destination name is longer than OSPFS_MAXNAMELEN
\* returns -ENAMETOOLONG and leaves the size and the entries of the
\* directory, the bitmap and the link count of the source as they were.
C30_LinkNameLength ==
    [][(last'.op = "link" /\ Len(last'.name) > OSPFS_MAXNAMELEN)
          => /\ last'.ret = -ENAMETOOLONG
             /\ inodes'[OSPFS_ROOT_INO].size = inodes[OSPFS_ROOT_INO].size
             /\ Stream' = Stream
             /\ freemap' = freemap
             /\ inodes'[last'.arg].nlink = inodes[last'.arg].nlink]_vars

\* The result x of create_blank_direntry on directory dir.
Blanked(x, dir) ==
    IF BlankOffs(Machine, dir) # {}
    THEN /\ x.m = Machine
         /\ x.od = Od(ospfs_inode_data(Machine, dir,
                                       Min(BlankOffs(Machine, dir))))
    ELSE add_block(Machine, dir).r = 0 =>
         /\ ~x.m.wild
         /\ x.m.ino[dir].size = inodes[dir].size + OSPFS_BLKSIZE
         /\ ospfs_inode_blockno(x.m, dir, inodes[dir].size)
                \in freemap \ x.m.fm
         /\ x.od = Od(ospfs_block(
                ospfs_inode_blockno(x.m, dir, inodes[dir].size), 0))

\* C31: in every reachable state, create_blank_direntry on a directory with
\* an entry whose od_ino is 0 returns the one of lowest offset and changes
\* neither the size of the directory nor the bitmap; on a directory whose
\* entries are all live and that add_block can extend, it extends the
\* directory by one block and returns the first entry of the new block.
C31_TombstoneReuse ==
    ~wild => Blanked(create_blank_direntry(Machine, OSPFS_ROOT_INO),
                     OSPFS_ROOT_INO)

\* The words of the blocks of directory dir: its entries and its index blocks.
DirWords(dir) ==
    UNION {BlockWords(b) :
              b \in {BlockAt(dir, k) :
                        k \in 0 .. (ospfs_size2nblocks(inodes[dir].size) - 1)}
                    \cup IndexBlocks(dir)}

\* The result x of an unlink of a name of directory dir.
Unlinked(x, dir, name) ==
    IF find_direntry(Machine, dir, name) = NULL
    THEN x.r = -ENOENT /\ x.m = Machine
    ELSE /\ x.m.ino[dir] = inodes[dir]
         /\ \A a \in DirWords(dir) \cap DataWords :
               x.m.dk[a] = IF a = find_direntry(Machine, dir, name).a
                           THEN 0 ELSE disk[a]

ZeroFrom(oi, k) ==
    \A b \in k .. (4 * PayloadWords - 1) : Byte(oi.w[b \div 4], b % 4) = 0

\* C33: the inode that a successful create or symlink claims, the first one
\* of link count 0, has every field the operation does not set at zero
\* after the call: for a symlink the mode and the bytes of the inline buffer
\* after the terminator of the target, for a create the size and all block
\* pointers.
C33_InodeZeroed ==
    [][(last'.op \in {"create", "symlink"} /\ last'.ret = 0 /\ ~wild')
          => /\ last'.op = "create"
                  => /\ inodes'[FreeInodeScan(Machine)].size = 0
                     /\ inodes'[FreeInodeScan(Machine)].w = ZeroPayload
             /\ last'.op = "symlink"
                  => /\ inodes'[FreeInodeScan(Machine)].mode = 0
                     /\ ZeroFrom(inodes'[FreeInodeScan(Machine)],
                                 last'.arg + 1)]_vars

\* C34: a follow_link leaves the symlink string and the size that the inode
\* stores as they were before the call.
C34_FollowReadOnly ==
    [][\A n \in FollowNames :
          (last'.op = "follow_link" /\ last'.name = n)
          => /\ inodes'[Lookup(n)].w = inodes[Lookup(n)].w
             /\ inodes'[Lookup(n)].size = inodes[Lookup(n)].size]_vars

\* The names that resolve to a symlink.
LiveLinks ==
    {n \in FollowNames : /\ Lookup(n) > 0
                         /\ inodes[Lookup(n)].ftype = OSPFS_FTYPE_SYMLINK}

\* What a follow_link of name n as user u hands back, now and after a
\* follow_link of n as user v.
Resolved(n, u) == ospfs_follow_link(Machine, Lookup(n), u).r
ResolvedAfter(n, v, u) ==
    ospfs_follow_link(ospfs_follow_link(Machine, Lookup(n), v).m,
                      Lookup(n), u).r

Within(size, pos, count) == Min({count, Max(0, size - pos)})

\* C36: a read of count bytes at position pos that no copy fault cuts short
\* returns min(count, max(0, size - pos)) and hands back that many bytes,
\* 0 at or beyond the end of the file; it leaves the position advanced by
\* the number of bytes returned and the inodes, the bitmap and the blocks as
\* they were.
C36_ReadLength ==
    [][\A n \in AllNames :
          (last'.op = "read" /\ last'.name = n /\ last'.good >= last'.count)
          => /\ last'.ret = Within(inodes[Lookup(n)].size, last'.arg,
                                   last'.count)
             /\ Len(last'.out) = last'.ret
             /\ ospfs_read(Machine, Lookup(n), last'.arg, last'.count,
                           last'.good).pos = last'.arg + last'.ret
             /\ inodes' = inodes /\ freemap' = freemap /\ disk' = disk]_vars

\* The names of the live entries of directory dir, by offset.
LiveNameAt(dir, off) ==
    Bytes(Machine, od_name(ospfs_inode_data(Machine, dir, off)),
          strlen(Machine, od_name(ospfs_inode_data(Machine, dir, off))))
LiveOffs(dir) ==
    {off \in EntryOffs(inodes[dir].size) :
        od_ino(Machine, ospfs_inode_data(Machine, dir, off)) # 0}

\* C37: in every reachable state no two live entries of the directory have
\* the same name.
C37_NameUnique ==
    \A s \in LiveOffs(OSPFS_ROOT_INO), t \in LiveOffs(OSPFS_ROOT_INO) :
        s # t => LiveNameAt(OSPFS_ROOT_INO, s) # LiveNameAt(OSPFS_ROOT_INO, t)

\* C37 witness: the directory has two live entries, a tombstone before the
\* second of them, and the last operation was refused a name that exists.
C37_Witness ==
    /\ Cardinality(LiveOffs(OSPFS_ROOT_INO)) >= 2
    /\ \E s \in EntryOffs(inodes[OSPFS_ROOT_INO].size) :
          /\ s \notin LiveOffs(OSPFS_ROOT_INO)
          /\ \E t \in LiveOffs(OSPFS_ROOT_INO) : s < t
    /\ last.op \in {"create", "link", "symlink"}
    /\ last.ret = -EEXIST

\* The live entries of the directory whose inode number is i.
EntriesOf(i) ==
    {off \in LiveOffs(OSPFS_ROOT_INO) :
        od_ino(Machine, ospfs_inode_data(Machine, OSPFS_ROOT_INO, off)) = i}

\* C38: in every reachable state the link count of every inode that is a
\* regular file or a symlink is the number of live directory entries with
\* its inode number.  Inode 0 is the reserved one of the image.
C38_LinkCount ==
    ~wild =>
        \A i \in Inos \ {0} :
            inodes[i].ftype \in {OSPFS_FTYPE_REG, OSPFS_FTYPE_SYMLINK}
                => inodes[i].nlink = Cardinality(EntriesOf(i))

\* C39: in every state reached by operations that each returned success or
\* -ENOSPC, every block of the data region that the bitmap has as allocated
\* is held by a pointer slot of a regular file or directory in use.
C39_NoLeak ==
    ~wild =>
        \A b \in DataBlocks \ freemap :
            \E i \in TreeInos : b \in TreeBlocks(i)

\* C40: a change_size to a size of more than OSPFS_MAXFILEBLKS blocks
\* returns -EIO and leaves the size and the pointers of the inode, its index
\* blocks and the bitmap as they were before the call.
C40_TooLarge ==
    [][\A n \in AllNames :
          (/\ last'.op = "change_size" /\ last'.name = n
           /\ ospfs_size2nblocks(last'.arg) > OSPFS_MAXFILEBLKS)
          => /\ last'.ret = -EIO
             /\ inodes'[Lookup(n)] = inodes[Lookup(n)]
             /\ freemap' = freemap
             /\ \A a \in IndexWords(Lookup(n)) \cap DataWords :
                   disk'[a] = disk[a]]_vars

=============================================================================
